---------------------------- MODULE Spec2Model ----------------------------
(***************************************************************************)
(* Model of the ai-captain maritime router: the bathymetry-aware grid      *)
(* router (backend/routes/bathymetry_router.py), the port registry         *)
(* (backend/data/ports.py) and the /api/generate-route handler             *)
(* (backend/app.py).                                                       *)
(*                                                                         *)
(* Units.  Coordinates are <<lat, lon>> in whole degrees.  Distances       *)
(* inside the graph are thousandths of a nautical mile; the values that    *)
(* the code rounds to two decimals (total_distance_nm, avg_depth_penalty,  *)
(* fuel_cost_usd, emissions_tons) are hundredths.  A depth penalty is kept *)
(* in hundredths as well (100 = factor 1.0).                               *)
(***************************************************************************)
EXTENDS Integers, Sequences, FiniteSets, TLC

VARIABLES
  resolution,      \* self.resolution
  bathymetry,      \* self.bathymetry   (None or an opened raster)
  land_polygons,   \* self.land_polygons (None or a polygon data frame)
  pc,              \* "idle", "pending" (a request waits), "done" (it was served)
  request,         \* the direct call or HTTP request last made
  stages,          \* the pipeline stages the request went through
  args,            \* the arguments optimize_route was called with
  locals,          \* optimize_route's locals when it ended: nodes, G,
                   \* start_idx, end_idx, path_indices (0, <<>>: never assigned)
  result,          \* what optimize_route returned or raised
  response,        \* what generate_route_api answered
  threads,         \* the calls of optimize_route running side by side on the
                   \* shared router, each with its own locals
  simple,          \* the call of the simple router (route_optimizer) last made
  estimate,        \* the call of estimate_fuel_and_emissions last made
  weighing,        \* the call of compute_edge_weight last made on its own
  script           \* the run of the build_graph_bathy.py script

vars == <<resolution, bathymetry, land_polygons, pc, request, stages, args,
          locals, result, response, threads, simple, estimate, weighing, script>>

None == "None"

\* ---------------------------------------------------------------- bounds
\* origin and destination coordinates range over 0..MaxLat x 0..MaxLon
MaxLat == 1
MaxLon == 3
\* the simple router is given up to MaxWaypoints intermediate waypoints
MaxWaypoints == 2

\* ------------------------------------------------------ program constants
PADDING == 5
MAX_CONNECT_DIST == 4
DEEP_WATER == 1000          \* get_depth answers -1000 without data
VERY_SHALLOW == 50
SHALLOW == 100
MODERATE == 200
MAX_SEGMENT_NM == 500

\* ------------------------------------------------------------- haversine
\* haversine(a, b, unit='nmi') of the haversine package on whole-degree
\* coordinates, in thousandths of a nautical mile, rounded up (rounding up
\* keeps it a metric: symmetric, zero only between equal points, triangle
\* inequality).  HaversineTable[lat1 + 6][lat2 + 6][dlon + 1]
\* for latitudes -5..11 and longitude differences 0..18.


HaversineTable ==
<<
  <<<<0,59813,119625,179437,239248,299060,358872,418683,478494,538305,598115,657926,717735,777545,837354,897162,956970,1016777,1076584>>,
    <<60041,84779,133923,189336,246833,305237,364112,423262,482585,542025,601546,661128,720754,780414,840101,899810,959536,1019277,1079029>>,
    <<120082,134189,169610,216107,267976,322635,378879,436096,493947,552232,610828,669653,728651,787784,847022,906346,965739,1025189,1084688>>,
    <<180122,189828,216348,254479,299823,349584,402126,456490,512095,568578,625701,683302,741272,799529,858015,916686,975508,1034456,1093510>>,
    <<240163,247531,268425,300033,339374,384078,432487,483488,536342,590552,645777,701777,758380,815461,872925,930703,988738,1046988,1105419>>,
    <<300203,306133,323272,349976,384257,424281,468580,516054,565904,617555,670590,724707,779680,835340,891557,948234,1005292,1062670,1120318>>,
    <<360244,365202,379690,402679,432817,468727,509189,553206,599995,648958,699637,751686,804839,858891,913683,969089,1025009,1081364,1138089>>,
    <<420284,424543,437070,457187,483948,516320,553320,594084,637891,684156,732413,782294,833508,885823,939056,993058,1047711,1102917,1158599>>,
    <<480325,484056,495079,512926,536916,566268,600197,637973,678954,722594,768441,816124,865338,915837,967419,1019921,1073207,1127166,1181706>>,
    <<540365,543684,553519,569534,591227,618000,649225,684293,722644,763784,807287,852791,899993,948639,998519,1049456,1101303,1153939,1207260>>,
    <<600406,603393,612266,626776,646544,671104,699952,732582,768513,807304,848562,891946,937160,983952,1032107,1081444,1131807,1183066,1235109>>,
    <<660446,663161,671240,684493,702628,725277,752035,782478,816195,852798,891931,933276,976552,1021514,1067949,1115673,1164528,1214376,1265101>>,
    <<720487,722974,730386,742574,759309,780299,805209,833690,865389,899965,937101,976504,1017911,1061087,1105826,1151945,1199284,1247706,1297088>>,
    <<780528,782822,789665,800940,816464,836000,859274,885991,915852,948557,983825,1021389,1061006,1102454,1145535,1190071,1235904,1282897,1330926>>,
    <<840568,842696,849049,859533,873999,892254,914070,939200,967384,998366,1031892,1067723,1105634,1145420,1186892,1229879,1274228,1319801,1366476>>,
    <<900609,902592,908518,918309,931844,948962,969474,993169,1019825,1049217,1081122,1115324,1151618,1189813,1229731,1271211,1314105,1358277,1403609>>,
    <<960649,962506,968056,977236,989944,1006048,1025386,1047781,1073040,1100967,1131364,1164037,1198800,1235477,1273903,1313923,1355398,1398196,1442201>>>>,
  <<<<60041,84779,133923,189336,246833,305237,364112,423262,482585,542025,601546,661128,720754,780414,840101,899810,959536,1019277,1079029>>,
    <<0,59895,119789,179683,239577,299471,359365,419259,479153,539046,598940,658833,718725,778618,838510,898402,958294,1018185,1078076>>,
    <<60041,84831,134054,189544,247116,305595,364545,423769,483166,542680,602276,661931,721631,781366,841127,900911,960711,1020526,1080354>>,
    <<120082,134217,169700,216267,268205,322932,379244,436527,494444,552796,611457,670348,729411,788609,847913,907303,966761,1026278,1085842>>,
    <<180122,189845,216409,254595,299998,349819,402421,456843,512507,569047,626227,683887,741913,800227,858770,917497,976377,1035382,1094492>>,
    <<240163,247542,268466,300115,339503,384257,432715,483766,536670,590929,646203,702251,758903,816032,873544,931370,989453,1047751,1106230>>,
    <<300203,306141,323299,350033,384348,424411,468749,516263,566152,617843,670919,725075,780087,835786,892043,948758,1005855,1063272,1120959>>,
    <<360244,365207,379707,402716,432878,468815,509306,553352,600171,649164,699873,751952,805135,859217,914039,969474,1025424,1081808,1138562>>,
    <<420284,424546,437080,457209,483984,516374,553392,594175,638001,684286,732564,782465,833699,886034,939286,993309,1047981,1103208,1158909>>,
    <<480325,484057,495084,512936,536932,566293,600230,638015,679006,722656,768513,816206,865430,915939,967531,1020043,1073339,1127308,1181858>>,
    <<540365,543684,553519,569534,591227,618000,649225,684293,722644,763784,807287,852791,899993,948639,998519,1049456,1101303,1153939,1207260>>,
    <<600406,603392,612263,626768,646530,671083,699924,732546,768467,807249,848497,891871,937075,983857,1032002,1081328,1131681,1182930,1234963>>,
    <<660446,663160,671234,684479,702603,725239,751982,782409,816108,852692,891806,933132,976389,1021331,1067745,1115449,1164283,1214111,1264816>>,
    <<720487,722972,730377,742554,759274,780245,805135,833593,865266,899816,936923,976298,1017675,1060822,1105530,1151619,1198928,1247319,1296670>>,
    <<780528,782819,789654,800915,816421,835934,859181,885869,915697,948368,983599,1021126,1060704,1102113,1145154,1189650,1235443,1282395,1330382>>,
    <<840568,842693,849036,859504,873948,892176,913961,939055,967201,998141,1031623,1067408,1105272,1145010,1186432,1229369,1273668,1319190,1365814>>,
    <<900609,902589,908503,918277,931787,948874,969350,993004,1019616,1048960,1080814,1114962,1151200,1189338,1229199,1270619,1313452,1357564,1402834>>>>,
  <<<<120082,134189,169610,216107,267976,322635,378879,436096,493947,552232,610828,669653,728651,787784,847022,906346,965739,1025189,1084688>>,
    <<60041,84831,134054,189544,247116,305595,364545,423769,483166,542680,602276,661931,721631,781366,841127,900911,960711,1020526,1080354>>,
    <<0,59959,119917,179875,239833,299792,359750,419708,479665,539623,599581,659539,719496,779453,839410,899367,959324,1019281,1079237>>,
    <<60041,84870,134152,189701,247329,305864,364870,424149,483602,543172,602823,662534,722289,782080,841897,901736,961593,1021464,1081347>>,
    <<120082,134238,169765,216381,268368,323145,379504,436835,494799,553198,611907,670844,729954,789199,848550,907986,967492,1027055,1086666>>,
    <<180122,189857,216449,254673,300115,349976,402617,457079,512781,569360,626579,684276,742341,800692,859273,918039,976956,1035999,1095147>>,
    <<240163,247549,268491,300165,339581,384364,432852,483933,536867,591155,646458,702536,759216,816374,873916,931770,989882,1048209,1106717>>,
    <<300203,306144,323313,350061,384394,424476,468834,516367,566277,617988,671083,725259,780291,836009,892285,949021,1006137,1063573,1121279>>,
    <<360244,365208,379713,402728,432898,468844,509345,553401,600230,649233,699952,752041,805234,859326,914157,969602,1025562,1081956,1138720>>,
    <<420284,424546,437080,457209,483984,516374,553392,594175,638001,684286,732564,782465,833699,886034,939286,993309,1047981,1103208,1158909>>,
    <<480325,484056,495079,512926,536916,566268,600197,637973,678954,722594,768441,816124,865338,915837,967419,1019921,1073207,1127166,1181706>>,
    <<540365,543682,553511,569517,591197,617956,649164,684214,722546,763667,807150,852634,899816,948442,998301,1049218,1101046,1153661,1206961>>,
    <<600406,603389,612252,626745,646489,671021,699838,732435,768329,807082,848302,891646,936820,983571,1031686,1080982,1131304,1182523,1234525>>,
    <<660446,663156,671221,684450,702552,725163,751876,782270,815935,852482,891558,932845,976062,1020964,1067338,1115001,1163794,1213582,1264246>>,
    <<720487,722968,730362,742521,759216,780157,805012,833430,865061,899567,936628,975954,1017283,1060380,1105038,1151076,1198334,1246674,1295974>>,
    <<780528,782815,789637,800878,816356,835834,859042,885685,915464,948084,983261,1020732,1060252,1101602,1144584,1189019,1234751,1281642,1329568>>,
    <<840568,842688,849018,859463,873877,892067,913808,938853,966944,997826,1031246,1066968,1104766,1144436,1185789,1228656,1272884,1318335,1364887>>>>,
  <<<<180122,189828,216348,254479,299823,349584,402126,456490,512095,568578,625701,683302,741272,799529,858015,916686,975508,1034456,1093510>>,
    <<120082,134217,169700,216267,268205,322932,379244,436527,494444,552796,611457,670348,729411,788609,847913,907303,966761,1026278,1085842>>,
    <<60041,84870,134152,189701,247329,305864,364870,424149,483602,543172,602823,662534,722289,782080,841897,901736,961593,1021464,1081347>>,
    <<0,60004,120008,180012,240016,300020,360024,420028,480032,540036,600039,660043,720046,780050,840053,900057,960060,1020063,1080066>>,
    <<60041,84896,134217,189805,247471,306044,365086,424403,483893,543499,603188,662935,722728,782556,842410,902287,962181,1022089,1082010>>,
    <<120082,134250,169804,216449,268466,323272,379661,437020,495013,553440,612176,671142,730280,789553,848932,908397,967930,1027522,1087161>>,
    <<180122,189862,216470,254712,300174,350055,402716,457197,512919,569517,626754,684471,742554,800925,859525,918309,977245,1036307,1095475>>,
    <<240163,247551,268499,300181,339607,384400,432898,483989,536932,591231,646544,702631,759321,816488,874040,931903,990025,1048361,1106879>>,
    <<300203,306144,323313,350061,384394,424476,468834,516367,566277,617988,671083,725259,780291,836009,892285,949021,1006137,1063573,1121279>>,
    <<360244,365207,379707,402716,432878,468815,509306,553352,600171,649164,699873,751952,805135,859217,914039,969474,1025424,1081808,1138562>>,
    <<420284,424543,437070,457187,483948,516320,553320,594084,637891,684156,732413,782294,833508,885823,939056,993058,1047711,1102917,1158599>>,
    <<480325,484052,495066,512897,536866,566195,600098,637846,678798,722409,768226,815878,865062,915531,967083,1019554,1072810,1126739,1181249>>,
    <<540365,543678,553495,569482,591138,617866,649041,684056,722350,763433,806876,852320,899462,948048,997867,1048743,1100530,1153105,1206365>>,
    <<600406,603385,612234,626705,646421,670919,699697,732250,768099,806805,847976,891271,936395,983096,1031160,1080405,1130677,1181844,1233795>>,
    <<660446,663151,671201,684406,702477,725049,751717,782063,815675,852167,891186,932414,975572,1020414,1066727,1114330,1163062,1212788,1263390>>,
    <<720487,722963,730341,742474,759135,780033,804839,833203,864775,899218,936214,975474,1016734,1059762,1104350,1150316,1197503,1245772,1295001>>,
    <<780528,782809,789615,800828,816269,835702,858857,885441,915155,947706,982811,1020207,1059650,1100922,1143823,1188178,1233829,1280638,1328482>>>>,
  <<<<240163,247531,268425,300033,339374,384078,432487,483488,536342,590552,645777,701777,758380,815461,872925,930703,988738,1046988,1105419>>,
    <<180122,189845,216409,254595,299998,349819,402421,456843,512507,569047,626227,683887,741913,800227,858770,917497,976377,1035382,1094492>>,
    <<120082,134238,169765,216381,268368,323145,379504,436835,494799,553198,611907,670844,729954,789199,848550,907986,967492,1027055,1086666>>,
    <<60041,84896,134217,189805,247471,306044,365086,424403,483893,543499,603188,662935,722728,782556,842410,902287,962181,1022089,1082010>>,
    <<0,60032,120063,180095,240126,300157,360189,420220,480252,540283,600314,660346,720377,780408,840439,900471,960502,1020533,1080564>>,
    <<60041,84908,134250,189857,247542,306133,365195,424530,484039,543663,603370,663136,722948,782794,842667,902562,962475,1022402,1082342>>,
    <<120082,134254,169816,216472,268499,323315,379713,437082,495084,553520,612266,671241,730389,789671,849060,908533,968077,1027677,1087326>>,
    <<180122,189862,216470,254712,300174,350055,402716,457197,512919,569517,626754,684471,742554,800925,859525,918309,977245,1036307,1095475>>,
    <<240163,247549,268491,300165,339581,384364,432852,483933,536867,591155,646458,702536,759216,816374,873916,931770,989882,1048209,1106717>>,
    <<300203,306141,323299,350033,384348,424411,468749,516263,566152,617843,670919,725075,780087,835786,892043,948758,1005855,1063272,1120959>>,
    <<360244,365202,379690,402679,432817,468727,509189,553206,599995,648958,699637,751686,804839,858891,913683,969089,1025009,1081364,1138089>>,
    <<420284,424538,437050,457144,483875,516214,553177,593903,637670,683895,732112,781953,833127,885402,938594,992556,1047169,1102337,1157979>>,
    <<480325,484047,495044,512849,536784,566074,599933,637634,678538,722099,767867,815469,864602,915021,966522,1018944,1072149,1126028,1180488>>,
    <<540365,543671,553471,569430,591048,617733,648858,683819,722057,763081,806466,851850,898931,947456,997215,1048030,1099756,1152271,1205470>>,
    <<600406,603378,612209,626650,646325,670775,699498,731992,767778,806417,847520,890746,935800,982430,1030423,1079598,1129798,1180894,1232775>>,
    <<660446,663145,671175,684348,702376,724897,751506,781786,815328,851748,890690,931841,974919,1019681,1065914,1113435,1162086,1211730,1262251>>,
    <<720487,722956,730314,742414,759030,779874,804617,832911,864408,898770,935683,974857,1016029,1058967,1103465,1149341,1196436,1244613,1293750>>>>,
  <<<<300203,306133,323272,349976,384257,424281,468580,516054,565904,617555,670590,724707,779680,835340,891557,948234,1005292,1062670,1120318>>,
    <<240163,247542,268466,300115,339503,384257,432715,483766,536670,590929,646203,702251,758903,816032,873544,931370,989453,1047751,1106230>>,
    <<180122,189857,216449,254673,300115,349976,402617,457079,512781,569360,626579,684276,742341,800692,859273,918039,976956,1035999,1095147>>,
    <<120082,134250,169804,216449,268466,323272,379661,437020,495013,553440,612176,671142,730280,789553,848932,908397,967930,1027522,1087161>>,
    <<60041,84908,134250,189857,247542,306133,365195,424530,484039,543663,603370,663136,722948,782794,842667,902562,962475,1022402,1082342>>,
    <<0,60041,120082,180122,240163,300203,360244,420284,480325,540365,600406,660446,720487,780528,840568,900609,960649,1020690,1080730>>,
    <<60041,84908,134250,189857,247542,306133,365195,424530,484039,543663,603370,663136,722948,782794,842667,902562,962475,1022402,1082342>>,
    <<120082,134250,169804,216449,268466,323272,379661,437020,495013,553440,612176,671142,730280,789553,848932,908397,967930,1027522,1087161>>,
    <<180122,189857,216449,254673,300115,349976,402617,457079,512781,569360,626579,684276,742341,800692,859273,918039,976956,1035999,1095147>>,
    <<240163,247542,268466,300115,339503,384257,432715,483766,536670,590929,646203,702251,758903,816032,873544,931370,989453,1047751,1106230>>,
    <<300203,306133,323272,349976,384257,424281,468580,516054,565904,617555,670590,724707,779680,835340,891557,948234,1005292,1062670,1120318>>,
    <<360244,365195,379661,402617,432715,468580,508995,552962,599702,648614,699243,751242,804346,858349,913091,968447,1024319,1080624,1137300>>,
    <<420284,424530,437020,457079,483766,516054,552962,593630,637338,683503,731660,781441,832555,884770,937902,991805,1046358,1101466,1157048>>,
    <<480325,484039,495013,512781,536670,565904,599702,637338,678174,721667,767365,814896,863959,914307,965738,1018089,1071225,1125033,1179423>>,
    <<540365,543663,553440,569360,590929,617555,648614,683503,721667,762614,805919,851224,898224,946669,996346,1047081,1098726,1151160,1204278>>,
    <<600406,603370,612176,626579,646203,670590,699243,731660,767365,805919,846935,890072,935035,981575,1029478,1078560,1128670,1179675,1231464>>,
    <<660446,663136,671142,684276,702251,724707,751242,781441,814896,851224,890072,931125,974104,1018766,1064898,1112317,1160866,1210409,1260828>>>>,
  <<<<360244,365202,379690,402679,432817,468727,509189,553206,599995,648958,699637,751686,804839,858891,913683,969089,1025009,1081364,1138089>>,
    <<300203,306141,323299,350033,384348,424411,468749,516263,566152,617843,670919,725075,780087,835786,892043,948758,1005855,1063272,1120959>>,
    <<240163,247549,268491,300165,339581,384364,432852,483933,536867,591155,646458,702536,759216,816374,873916,931770,989882,1048209,1106717>>,
    <<180122,189862,216470,254712,300174,350055,402716,457197,512919,569517,626754,684471,742554,800925,859525,918309,977245,1036307,1095475>>,
    <<120082,134254,169816,216472,268499,323315,379713,437082,495084,553520,612266,671241,730389,789671,849060,908533,968077,1027677,1087326>>,
    <<60041,84908,134250,189857,247542,306133,365195,424530,484039,543663,603370,663136,722948,782794,842667,902562,962475,1022402,1082342>>,
    <<0,60032,120063,180095,240126,300157,360189,420220,480252,540283,600314,660346,720377,780408,840439,900471,960502,1020533,1080564>>,
    <<60041,84896,134217,189805,247471,306044,365086,424403,483893,543499,603188,662935,722728,782556,842410,902287,962181,1022089,1082010>>,
    <<120082,134238,169765,216381,268368,323145,379504,436835,494799,553198,611907,670844,729954,789199,848550,907986,967492,1027055,1086666>>,
    <<180122,189845,216409,254595,299998,349819,402421,456843,512507,569047,626227,683887,741913,800227,858770,917497,976377,1035382,1094492>>,
    <<240163,247531,268425,300033,339374,384078,432487,483488,536342,590552,645777,701777,758380,815461,872925,930703,988738,1046988,1105419>>,
    <<300203,306123,323231,349892,384120,424087,468327,515741,565531,617122,670098,724156,779070,834670,890830,947448,1004448,1061768,1119358>>,
    <<360244,365184,379620,402531,432573,468375,508723,552622,599291,648133,698692,750622,803655,857589,912262,967550,1023352,1079589,1136197>>,
    <<420284,424520,436980,456992,483621,515841,552676,593267,636897,682982,731059,780759,831792,883927,936980,990803,1045277,1100305,1155809>>,
    <<480325,484028,494973,512695,536522,565685,599405,636958,677708,721112,766719,814161,863133,913390,964731,1016991,1070036,1123755,1178055>>,
    <<540365,543653,553400,569274,590781,617332,648309,683109,721180,762030,805237,850441,897341,945685,995261,1045895,1097439,1149772,1202790>>,
    <<600406,603360,612137,626492,646053,670365,698932,731256,766860,805311,846221,889249,934103,980532,1028323,1077294,1127292,1178185,1229862>>>>,
  <<<<420284,424543,437070,457187,483948,516320,553320,594084,637891,684156,732413,782294,833508,885823,939056,993058,1047711,1102917,1158599>>,
    <<360244,365207,379707,402716,432878,468815,509306,553352,600171,649164,699873,751952,805135,859217,914039,969474,1025424,1081808,1138562>>,
    <<300203,306144,323313,350061,384394,424476,468834,516367,566277,617988,671083,725259,780291,836009,892285,949021,1006137,1063573,1121279>>,
    <<240163,247551,268499,300181,339607,384400,432898,483989,536932,591231,646544,702631,759321,816488,874040,931903,990025,1048361,1106879>>,
    <<180122,189862,216470,254712,300174,350055,402716,457197,512919,569517,626754,684471,742554,800925,859525,918309,977245,1036307,1095475>>,
    <<120082,134250,169804,216449,268466,323272,379661,437020,495013,553440,612176,671142,730280,789553,848932,908397,967930,1027522,1087161>>,
    <<60041,84896,134217,189805,247471,306044,365086,424403,483893,543499,603188,662935,722728,782556,842410,902287,962181,1022089,1082010>>,
    <<0,60004,120008,180012,240016,300020,360024,420028,480032,540036,600039,660043,720046,780050,840053,900057,960060,1020063,1080066>>,
    <<60041,84870,134152,189701,247329,305864,364870,424149,483602,543172,602823,662534,722289,782080,841897,901736,961593,1021464,1081347>>,
    <<120082,134217,169700,216267,268205,322932,379244,436527,494444,552796,611457,670348,729411,788609,847913,907303,966761,1026278,1085842>>,
    <<180122,189828,216348,254479,299823,349584,402126,456490,512095,568578,625701,683302,741272,799529,858015,916686,975508,1034456,1093510>>,
    <<240163,247516,268368,299918,339193,383828,432167,483098,535883,590025,645181,701113,757648,814662,872059,929770,987738,1045921,1104285>>,
    <<300203,306108,323177,349779,383937,423829,467990,515324,565034,616545,669442,723421,778256,833779,889860,946401,1003323,1060565,1118078>>,
    <<360244,365171,379568,402421,432391,468112,508374,552184,598764,647516,697985,749824,802768,856613,911197,966396,1022110,1078259,1134778>>,
    <<420284,424507,436930,456885,483439,515575,552319,592814,636345,682331,730307,779908,830840,882875,935828,989551,1043926,1098855,1154260>>,
    <<480325,484016,494924,512589,536343,565419,599043,636494,677138,720433,765932,813262,862124,912270,963501,1015651,1068586,1122194,1176384>>,
    <<540365,543641,553352,569170,590603,617066,647944,682638,720596,761330,804419,849504,896283,944505,993961,1044473,1095896,1148108,1201005>>>>,
  <<<<480325,484056,495079,512926,536916,566268,600197,637973,678954,722594,768441,816124,865338,915837,967419,1019921,1073207,1127166,1181706>>,
    <<420284,424546,437080,457209,483984,516374,553392,594175,638001,684286,732564,782465,833699,886034,939286,993309,1047981,1103208,1158909>>,
    <<360244,365208,379713,402728,432898,468844,509345,553401,600230,649233,699952,752041,805234,859326,914157,969602,1025562,1081956,1138720>>,
    <<300203,306144,323313,350061,384394,424476,468834,516367,566277,617988,671083,725259,780291,836009,892285,949021,1006137,1063573,1121279>>,
    <<240163,247549,268491,300165,339581,384364,432852,483933,536867,591155,646458,702536,759216,816374,873916,931770,989882,1048209,1106717>>,
    <<180122,189857,216449,254673,300115,349976,402617,457079,512781,569360,626579,684276,742341,800692,859273,918039,976956,1035999,1095147>>,
    <<120082,134238,169765,216381,268368,323145,379504,436835,494799,553198,611907,670844,729954,789199,848550,907986,967492,1027055,1086666>>,
    <<60041,84870,134152,189701,247329,305864,364870,424149,483602,543172,602823,662534,722289,782080,841897,901736,961593,1021464,1081347>>,
    <<0,59959,119917,179875,239833,299792,359750,419708,479665,539623,599581,659539,719496,779453,839410,899367,959324,1019281,1079237>>,
    <<60041,84831,134054,189544,247116,305595,364545,423769,483166,542680,602276,661931,721631,781366,841127,900911,960711,1020526,1080354>>,
    <<120082,134189,169610,216107,267976,322635,378879,436096,493947,552232,610828,669653,728651,787784,847022,906346,965739,1025189,1084688>>,
    <<180122,189805,216267,254324,299589,349270,401733,456019,511547,567952,624998,682524,740417,798599,857009,915604,974351,1033223,1092200>>,
    <<240163,247496,268295,299770,338960,383507,431756,482598,535294,589347,644415,700260,756708,813635,870946,928570,986452,1044549,1102827>>,
    <<300203,306090,323109,349638,383709,423506,467568,514803,564413,615824,668622,722502,777240,832665,888649,945092,1001917,1059063,1116479>>,
    <<360244,365154,379505,402287,432168,467790,507947,551649,598119,646761,697120,748850,801685,855420,909896,964987,1020593,1076634,1133046>>,
    <<420284,424491,436870,456755,483222,515257,551891,592272,635684,681550,729407,778887,829699,881614,934447,988051,1042307,1097117,1152403>>,
    <<480325,484001,494867,512464,536131,565105,598616,635947,676465,719633,765002,812202,860933,910949,962048,1014068,1066873,1120351,1174411>>>>,
  <<<<540365,543684,553519,569534,591227,618000,649225,684293,722644,763784,807287,852791,899993,948639,998519,1049456,1101303,1153939,1207260>>,
    <<480325,484057,495084,512936,536932,566293,600230,638015,679006,722656,768513,816206,865430,915939,967531,1020043,1073339,1127308,1181858>>,
    <<420284,424546,437080,457209,483984,516374,553392,594175,638001,684286,732564,782465,833699,886034,939286,993309,1047981,1103208,1158909>>,
    <<360244,365207,379707,402716,432878,468815,509306,553352,600171,649164,699873,751952,805135,859217,914039,969474,1025424,1081808,1138562>>,
    <<300203,306141,323299,350033,384348,424411,468749,516263,566152,617843,670919,725075,780087,835786,892043,948758,1005855,1063272,1120959>>,
    <<240163,247542,268466,300115,339503,384257,432715,483766,536670,590929,646203,702251,758903,816032,873544,931370,989453,1047751,1106230>>,
    <<180122,189845,216409,254595,299998,349819,402421,456843,512507,569047,626227,683887,741913,800227,858770,917497,976377,1035382,1094492>>,
    <<120082,134217,169700,216267,268205,322932,379244,436527,494444,552796,611457,670348,729411,788609,847913,907303,966761,1026278,1085842>>,
    <<60041,84831,134054,189544,247116,305595,364545,423769,483166,542680,602276,661931,721631,781366,841127,900911,960711,1020526,1080354>>,
    <<0,59895,119789,179683,239577,299471,359365,419259,479153,539046,598940,658833,718725,778618,838510,898402,958294,1018185,1078076>>,
    <<60041,84779,133923,189336,246833,305237,364112,423262,482585,542025,601546,661128,720754,780414,840101,899810,959536,1019277,1079029>>,
    <<120082,134152,169494,215902,267681,322253,378411,435542,493307,551508,610020,668760,727674,786723,845877,905116,964425,1023791,1083204>>,
    <<180122,189776,216166,254130,299297,348879,401243,455430,510861,567171,624121,681552,739350,797436,855752,914252,972904,1031682,1090565>>,
    <<240163,247471,268205,299590,338676,383115,431254,481987,534574,588519,643480,699218,755560,812381,869587,927105,984882,1042874,1101047>>,
    <<300203,306069,323028,349469,383436,423119,467063,514178,563668,614961,667640,721402,776021,831329,887196,943523,1000232,1057261,1114562>>,
    <<360244,365135,379430,402128,431905,467411,507444,551018,597359,645871,696100,747700,800406,854013,908360,963323,1018802,1074716,1131001>>,
    <<420284,424473,436800,456605,482969,514887,551393,591639,634915,680641,728358,777697,828369,880144,932838,986303,1040419,1095091,1150239>>>>,
  <<<<600406,603393,612266,626776,646544,671104,699952,732582,768513,807304,848562,891946,937160,983952,1032107,1081444,1131807,1183066,1235109>>,
    <<540365,543684,553519,569534,591227,618000,649225,684293,722644,763784,807287,852791,899993,948639,998519,1049456,1101303,1153939,1207260>>,
    <<480325,484056,495079,512926,536916,566268,600197,637973,678954,722594,768441,816124,865338,915837,967419,1019921,1073207,1127166,1181706>>,
    <<420284,424543,437070,457187,483948,516320,553320,594084,637891,684156,732413,782294,833508,885823,939056,993058,1047711,1102917,1158599>>,
    <<360244,365202,379690,402679,432817,468727,509189,553206,599995,648958,699637,751686,804839,858891,913683,969089,1025009,1081364,1138089>>,
    <<300203,306133,323272,349976,384257,424281,468580,516054,565904,617555,670590,724707,779680,835340,891557,948234,1005292,1062670,1120318>>,
    <<240163,247531,268425,300033,339374,384078,432487,483488,536342,590552,645777,701777,758380,815461,872925,930703,988738,1046988,1105419>>,
    <<180122,189828,216348,254479,299823,349584,402126,456490,512095,568578,625701,683302,741272,799529,858015,916686,975508,1034456,1093510>>,
    <<120082,134189,169610,216107,267976,322635,378879,436096,493947,552232,610828,669653,728651,787784,847022,906346,965739,1025189,1084688>>,
    <<60041,84779,133923,189336,246833,305237,364112,423262,482585,542025,601546,661128,720754,780414,840101,899810,959536,1019277,1079029>>,
    <<0,59813,119625,179437,239248,299060,358872,418683,478494,538305,598115,657926,717735,777545,837354,897162,956970,1016777,1076584>>,
    <<60041,84715,133760,189076,246478,304789,363571,422628,481859,541206,600635,660124,719657,779225,838820,898435,958068,1017715,1077374>>,
    <<120082,134107,169352,215651,267322,321787,377839,434865,492527,550624,609033,667670,726481,785426,844478,903614,962820,1022082,1081392>>,
    <<180122,189741,216045,253898,298946,348409,400655,454725,510040,566234,623069,680385,738070,796043,854244,912631,971170,1029834,1088603>>,
    <<240163,247443,268100,299377,338341,382652,430662,481265,533724,587541,642376,697988,754205,810900,867981,925375,983028,1040895,1098944>>,
    <<300203,306044,322934,349273,383117,422668,466475,513451,562801,613954,666495,720119,774601,829772,885503,941694,998268,1055161,1112326>>,
    <<360244,365113,379344,401945,431603,466974,506865,550292,596483,644845,694925,746375,798932,852390,906590,961406,1016737,1072505,1128643>>>>,
  <<<<660446,663161,671240,684493,702628,725277,752035,782478,816195,852798,891931,933276,976552,1021514,1067949,1115673,1164528,1214376,1265101>>,
    <<600406,603392,612263,626768,646530,671083,699924,732546,768467,807249,848497,891871,937075,983857,1032002,1081328,1131681,1182930,1234963>>,
    <<540365,543682,553511,569517,591197,617956,649164,684214,722546,763667,807150,852634,899816,948442,998301,1049218,1101046,1153661,1206961>>,
    <<480325,484052,495066,512897,536866,566195,600098,637846,678798,722409,768226,815878,865062,915531,967083,1019554,1072810,1126739,1181249>>,
    <<420284,424538,437050,457144,483875,516214,553177,593903,637670,683895,732112,781953,833127,885402,938594,992556,1047169,1102337,1157979>>,
    <<360244,365195,379661,402617,432715,468580,508995,552962,599702,648614,699243,751242,804346,858349,913091,968447,1024319,1080624,1137300>>,
    <<300203,306123,323231,349892,384120,424087,468327,515741,565531,617122,670098,724156,779070,834670,890830,947448,1004448,1061768,1119358>>,
    <<240163,247516,268368,299918,339193,383828,432167,483098,535883,590025,645181,701113,757648,814662,872059,929770,987738,1045921,1104285>>,
    <<180122,189805,216267,254324,299589,349270,401733,456019,511547,567952,624998,682524,740417,798599,857009,915604,974351,1033223,1092200>>,
    <<120082,134152,169494,215902,267681,322253,378411,435542,493307,551508,610020,668760,727674,786723,845877,905116,964425,1023791,1083204>>,
    <<60041,84715,133760,189076,246478,304789,363571,422628,481859,541206,600635,660124,719657,779225,838820,898435,958068,1017715,1077374>>,
    <<0,59712,119424,179135,238846,298558,358268,417979,477689,537399,597109,656817,716526,776233,835940,895647,955352,1015057,1074761>>,
    <<60041,84638,133564,188765,246053,304251,362922,421868,480988,540224,599543,658921,718343,777799,837282,896787,956308,1015843,1075389>>,
    <<120082,134054,169185,215356,266898,321236,377163,434066,491605,549580,607866,666382,725072,783896,842825,901840,960924,1020065,1079253>>,
    <<180122,189701,215904,253628,298539,347862,399970,453903,509082,565141,621843,679026,736578,794418,852487,910742,969148,1027680,1086317>>,
    <<240163,247410,267978,299132,337956,382119,429980,480434,532744,586415,641103,696570,752642,809193,866130,923381,980890,1038614,1096520>>,
    <<300203,306016,322826,349049,382755,422154,465804,512620,561812,612806,665188,718654,772979,827994,883570,939606,996025,1052764,1109775>>>>,
  <<<<720487,722974,730386,742574,759309,780299,805209,833690,865389,899965,937101,976504,1017911,1061087,1105826,1151945,1199284,1247706,1297088>>,
    <<660446,663160,671234,684479,702603,725239,751982,782409,816108,852692,891806,933132,976389,1021331,1067745,1115449,1164283,1214111,1264816>>,
    <<600406,603389,612252,626745,646489,671021,699838,732435,768329,807082,848302,891646,936820,983571,1031686,1080982,1131304,1182523,1234525>>,
    <<540365,543678,553495,569482,591138,617866,649041,684056,722350,763433,806876,852320,899462,948048,997867,1048743,1100530,1153105,1206365>>,
    <<480325,484047,495044,512849,536784,566074,599933,637634,678538,722099,767867,815469,864602,915021,966522,1018944,1072149,1126028,1180488>>,
    <<420284,424530,437020,457079,483766,516054,552962,593630,637338,683503,731660,781441,832555,884770,937902,991805,1046358,1101466,1157048>>,
    <<360244,365184,379620,402531,432573,468375,508723,552622,599291,648133,698692,750622,803655,857589,912262,967550,1023352,1079589,1136197>>,
    <<300203,306108,323177,349779,383937,423829,467990,515324,565034,616545,669442,723421,778256,833779,889860,946401,1003323,1060565,1118078>>,
    <<240163,247496,268295,299770,338960,383507,431756,482598,535294,589347,644415,700260,756708,813635,870946,928570,986452,1044549,1102827>>,
    <<180122,189776,216166,254130,299297,348879,401243,455430,510861,567171,624121,681552,739350,797436,855752,914252,972904,1031682,1090565>>,
    <<120082,134107,169352,215651,267322,321787,377839,434865,492527,550624,609033,667670,726481,785426,844478,903614,962820,1022082,1081392>>,
    <<60041,84638,133564,188765,246053,304251,362922,421868,480988,540224,599543,658921,718343,777799,837282,896787,956308,1015843,1075389>>,
    <<0,59593,119186,178779,238372,297964,357556,417148,476739,536329,595919,655509,715097,774685,834272,893857,953442,1013026,1072608>>,
    <<60041,84548,133336,188402,245557,303625,362166,420982,479973,539080,598269,657517,716810,776137,835490,894865,954256,1013660,1073075>>,
    <<120082,133994,168992,215015,266409,320601,376385,433145,490542,548376,606522,664898,723447,782131,840920,899795,958738,1017738,1076785>>,
    <<180122,189656,215743,253320,298073,347238,399187,452964,507988,563894,620443,677474,734874,792563,850481,908585,966840,1025220,1083706>>,
    <<240163,247373,267841,298854,337520,381516,429208,479493,531636,585139,639662,694964,750872,807261,864035,921123,978470,1036032,1093775>>>>,
  <<<<780528,782822,789665,800940,816464,836000,859274,885991,915852,948557,983825,1021389,1061006,1102454,1145535,1190071,1235904,1282897,1330926>>,
    <<720487,722972,730377,742554,759274,780245,805135,833593,865266,899816,936923,976298,1017675,1060822,1105530,1151619,1198928,1247319,1296670>>,
    <<660446,663156,671221,684450,702552,725163,751876,782270,815935,852482,891558,932845,976062,1020964,1067338,1115001,1163794,1213582,1264246>>,
    <<600406,603385,612234,626705,646421,670919,699697,732250,768099,806805,847976,891271,936395,983096,1031160,1080405,1130677,1181844,1233795>>,
    <<540365,543671,553471,569430,591048,617733,648858,683819,722057,763081,806466,851850,898931,947456,997215,1048030,1099756,1152271,1205470>>,
    <<480325,484039,495013,512781,536670,565904,599702,637338,678174,721667,767365,814896,863959,914307,965738,1018089,1071225,1125033,1179423>>,
    <<420284,424520,436980,456992,483621,515841,552676,593267,636897,682982,731059,780759,831792,883927,936980,990803,1045277,1100305,1155809>>,
    <<360244,365171,379568,402421,432391,468112,508374,552184,598764,647516,697985,749824,802768,856613,911197,966396,1022110,1078259,1134778>>,
    <<300203,306090,323109,349638,383709,423506,467568,514803,564413,615824,668622,722502,777240,832665,888649,945092,1001917,1059063,1116479>>,
    <<240163,247471,268205,299590,338676,383115,431254,481987,534574,588519,643480,699218,755560,812381,869587,927105,984882,1042874,1101047>>,
    <<180122,189741,216045,253898,298946,348409,400655,454725,510040,566234,623069,680385,738070,796043,854244,912631,971170,1029834,1088603>>,
    <<120082,134054,169185,215356,266898,321236,377163,434066,491605,549580,607866,666382,725072,783896,842825,901840,960924,1020065,1079253>>,
    <<60041,84548,133336,188402,245557,303625,362166,420982,479973,539080,598269,657517,716810,776137,835490,894865,954256,1013660,1073075>>,
    <<0,59457,118913,178369,237824,297280,356735,416189,475643,535096,594548,654000,713450,772899,832347,891794,951240,1010684,1070127>>,
    <<60041,84445,133075,187987,244991,302910,361302,419971,478813,537773,596814,655915,715060,774239,833444,892670,951912,1011167,1070433>>,
    <<120082,133925,168774,214630,265856,319883,375503,432101,489338,547013,605000,663216,721607,780132,838763,897479,956264,1015104,1073992>>,
    <<180122,189604,215562,252974,297550,346537,398309,451910,506760,562493,618870,675730,732959,790478,848226,906160,964245,1022456,1080771>>>>,
  <<<<840568,842696,849049,859533,873999,892254,914070,939200,967384,998366,1031892,1067723,1105634,1145420,1186892,1229879,1274228,1319801,1366476>>,
    <<780528,782819,789654,800915,816421,835934,859181,885869,915697,948368,983599,1021126,1060704,1102113,1145154,1189650,1235443,1282395,1330382>>,
    <<720487,722968,730362,742521,759216,780157,805012,833430,865061,899567,936628,975954,1017283,1060380,1105038,1151076,1198334,1246674,1295974>>,
    <<660446,663151,671201,684406,702477,725049,751717,782063,815675,852167,891186,932414,975572,1020414,1066727,1114330,1163062,1212788,1263390>>,
    <<600406,603378,612209,626650,646325,670775,699498,731992,767778,806417,847520,890746,935800,982430,1030423,1079598,1129798,1180894,1232775>>,
    <<540365,543663,553440,569360,590929,617555,648614,683503,721667,762614,805919,851224,898224,946669,996346,1047081,1098726,1151160,1204278>>,
    <<480325,484028,494973,512695,536522,565685,599405,636958,677708,721112,766719,814161,863133,913390,964731,1016991,1070036,1123755,1178055>>,
    <<420284,424507,436930,456885,483439,515575,552319,592814,636345,682331,730307,779908,830840,882875,935828,989551,1043926,1098855,1154260>>,
    <<360244,365154,379505,402287,432168,467790,507947,551649,598119,646761,697120,748850,801685,855420,909896,964987,1020593,1076634,1133046>>,
    <<300203,306069,323028,349469,383436,423119,467063,514178,563668,614961,667640,721402,776021,831329,887196,943523,1000232,1057261,1114562>>,
    <<240163,247443,268100,299377,338341,382652,430662,481265,533724,587541,642376,697988,754205,810900,867981,925375,983028,1040895,1098944>>,
    <<180122,189701,215904,253628,298539,347862,399970,453903,509082,565141,621843,679026,736578,794418,852487,910742,969148,1027680,1086317>>,
    <<120082,133994,168992,215015,266409,320601,376385,433145,490542,548376,606522,664898,723447,782131,840920,899795,958738,1017738,1076785>>,
    <<60041,84445,133075,187987,244991,302910,361302,419971,478813,537773,596814,655915,715060,774239,833444,892670,951912,1011167,1070433>>,
    <<0,59302,118603,177904,237205,296505,355805,415104,474402,533699,592995,652291,711585,770877,830168,889458,948746,1008032,1067316>>,
    <<60041,84330,132783,187521,244356,302106,360331,418833,477510,536304,595179,654114,713093,772105,831144,890203,949278,1008365,1067463>>,
    <<120082,133848,168531,214200,265239,319081,374519,430937,487995,545491,603300,661340,719553,777901,836355,894893,953500,1012163,1070873>>>>,
  <<<<900609,902592,908518,918309,931844,948962,969474,993169,1019825,1049217,1081122,1115324,1151618,1189813,1229731,1271211,1314105,1358277,1403609>>,
    <<840568,842693,849036,859504,873948,892176,913961,939055,967201,998141,1031623,1067408,1105272,1145010,1186432,1229369,1273668,1319190,1365814>>,
    <<780528,782815,789637,800878,816356,835834,859042,885685,915464,948084,983261,1020732,1060252,1101602,1144584,1189019,1234751,1281642,1329568>>,
    <<720487,722963,730341,742474,759135,780033,804839,833203,864775,899218,936214,975474,1016734,1059762,1104350,1150316,1197503,1245772,1295001>>,
    <<660446,663145,671175,684348,702376,724897,751506,781786,815328,851748,890690,931841,974919,1019681,1065914,1113435,1162086,1211730,1262251>>,
    <<600406,603370,612176,626579,646203,670590,699243,731660,767365,805919,846935,890072,935035,981575,1029478,1078560,1128670,1179675,1231464>>,
    <<540365,543653,553400,569274,590781,617332,648309,683109,721180,762030,805237,850441,897341,945685,995261,1045895,1097439,1149772,1202790>>,
    <<480325,484016,494924,512589,536343,565419,599043,636494,677138,720433,765932,813262,862124,912270,963501,1015651,1068586,1122194,1176384>>,
    <<420284,424491,436870,456755,483222,515257,551891,592272,635684,681550,729407,778887,829699,881614,934447,988051,1042307,1097117,1152403>>,
    <<360244,365135,379430,402128,431905,467411,507444,551018,597359,645871,696100,747700,800406,854013,908360,963323,1018802,1074716,1131001>>,
    <<300203,306044,322934,349273,383117,422668,466475,513451,562801,613954,666495,720119,774601,829772,885503,941694,998268,1055161,1112326>>,
    <<240163,247410,267978,299132,337956,382119,429980,480434,532744,586415,641103,696570,752642,809193,866130,923381,980890,1038614,1096520>>,
    <<180122,189656,215743,253320,298073,347238,399187,452964,507988,563894,620443,677474,734874,792563,850481,908585,966840,1025220,1083706>>,
    <<120082,133925,168774,214630,265856,319883,375503,432101,489338,547013,605000,663216,721607,780132,838763,897479,956264,1015104,1073992>>,
    <<60041,84330,132783,187521,244356,302106,360331,418833,477510,536304,595179,654114,713093,772105,831144,890203,949278,1008365,1067463>>,
    <<0,59129,118257,177385,236513,295640,354766,413891,473016,532139,591262,650383,709502,768620,827735,886849,945961,1005071,1064178>>,
    <<60041,84202,132458,187003,243650,301214,359254,417571,476064,534673,593364,652115,710909,769737,828591,887464,946354,1005255,1064167>>>>,
  <<<<960649,962506,968056,977236,989944,1006048,1025386,1047781,1073040,1100967,1131364,1164037,1198800,1235477,1273903,1313923,1355398,1398196,1442201>>,
    <<900609,902589,908503,918277,931787,948874,969350,993004,1019616,1048960,1080814,1114962,1151200,1189338,1229199,1270619,1313452,1357564,1402834>>,
    <<840568,842688,849018,859463,873877,892067,913808,938853,966944,997826,1031246,1066968,1104766,1144436,1185789,1228656,1272884,1318335,1364887>>,
    <<780528,782809,789615,800828,816269,835702,858857,885441,915155,947706,982811,1020207,1059650,1100922,1143823,1188178,1233829,1280638,1328482>>,
    <<720487,722956,730314,742414,759030,779874,804617,832911,864408,898770,935683,974857,1016029,1058967,1103465,1149341,1196436,1244613,1293750>>,
    <<660446,663136,671142,684276,702251,724707,751242,781441,814896,851224,890072,931125,974104,1018766,1064898,1112317,1160866,1210409,1260828>>,
    <<600406,603360,612137,626492,646053,670365,698932,731256,766860,805311,846221,889249,934103,980532,1028323,1077294,1127292,1178185,1229862>>,
    <<540365,543641,553352,569170,590603,617066,647944,682638,720596,761330,804419,849504,896283,944505,993961,1044473,1095896,1148108,1201005>>,
    <<480325,484001,494867,512464,536131,565105,598616,635947,676465,719633,765002,812202,860933,910949,962048,1014068,1066873,1120351,1174411>>,
    <<420284,424473,436800,456605,482969,514887,551393,591639,634915,680641,728358,777697,828369,880144,932838,986303,1040419,1095091,1150239>>,
    <<360244,365113,379344,401945,431603,466974,506865,550292,596483,644845,694925,746375,798932,852390,906590,961406,1016737,1072505,1128643>>,
    <<300203,306016,322826,349049,382755,422154,465804,512620,561812,612806,665188,718654,772979,827994,883570,939606,996025,1052764,1109775>>,
    <<240163,247373,267841,298854,337520,381516,429208,479493,531636,585139,639662,694964,750872,807261,864035,921123,978470,1036032,1093775>>,
    <<180122,189604,215562,252974,297550,346537,398309,451910,506760,562493,618870,675730,732959,790478,848226,906160,964245,1022456,1080771>>,
    <<120082,133848,168531,214200,265239,319081,374519,430937,487995,545491,603300,661340,719553,777901,836355,894893,953500,1012163,1070873>>,
    <<60041,84202,132458,187003,243650,301214,359254,417571,476064,534673,593364,652115,710909,769737,828591,887464,946354,1005255,1064167>>,
    <<0,58938,117875,176812,235748,294684,353619,412553,471486,530417,589347,648276,707202,766127,825049,883969,942887,1001802,1060714>>>>
>>

Abs(x) == IF x < 0 THEN -x ELSE x

haversine(a, b) == HaversineTable[a[1] + 6][b[1] + 6][Abs(a[2] - b[2]) + 1]

\* round(x, 2): thousandths to hundredths, ties to even
Round2(x) ==
  LET q == x \div 10
      r == x % 10
  IN  IF r < 5 THEN q
      ELSE IF r > 5 THEN q + 1
      ELSE IF q % 2 = 0 THEN q ELSE q + 1

\* ------------------------------------------------------------ the datasets
\* self.land_polygons is None (loaded = FALSE) or a data frame whose geometry
\* is a sequence of polygons; the polygons of the model are axis-aligned
\* rectangles <<lat_lo, lat_hi, lon_lo, lon_hi>>.  shapely's contains() is true
\* of interior points only.
\* `raises` is true of a frame whose geometry.contains(point) throws.
NoLand     == [loaded |-> FALSE, geometry |-> <<>>, raises |-> FALSE]
Frame(g)   == [loaded |-> TRUE, geometry |-> g, raises |-> FALSE]
EmptyFrame == Frame(<<>>)
Continent  == Frame(<< <<-90, 90, -180, 180>> >>)
\* a north-south land bar over longitudes 1..2
Wall       == Frame(<< <<-90, 90, 0, 3>> >>)
\* the same bar reaching south only to latitude -1: ships pass south of it
Peninsula  == Frame(<< <<-2, 90, 0, 3>> >>)
\* land west of longitude 6 with one water cell (a lake) at <<1, 1>>
Lake       == Frame(<< <<-90, 90, -180, 1>>, <<-90, 1, 0, 6>>,
                       <<1, 90, 0, 6>>, <<0, 2, 1, 6>> >>)

\* a frame of land everywhere whose containment test throws
Unreadable == [Continent EXCEPT !.raises = TRUE]

LandFrames == {EmptyFrame, Continent, Wall, Peninsula, Lake, Unreadable}

contains(poly, lon, lat) ==
  poly[1] < lat /\ lat < poly[2] /\ poly[3] < lon /\ lon < poly[4]

\* self.bathymetry is None (open = FALSE) or a raster with one-degree pixels:
\* its north-west corner, its shape and band 1 (depth by column, the same in
\* every row).
NoRaster == [open |-> FALSE, left |-> 0, top |-> 0, width |-> 0, height |-> 0,
             band |-> <<>>]
Shelf == [open |-> TRUE, left |-> -2, top |-> 4, width |-> 8, height |-> 8,
          band |-> <<-20, -60, -90, -150, -300, -3000, -3000, -40>>]

Rasters == {Shelf}

Resolutions == {3, 4, 5}

\* ------------------------------------------------- BathymetryRouter methods
\* self.bathymetry.index(lon, lat)
RasterIndex(ds, lon, lat) == <<ds.top - lat, lon - ds.left>>

\* self.bathymetry.read(1)[row, col]: numpy indexing, a negative index counts
\* from the end, an index outside -size..size-1 raises IndexError
InBand(ds, rc) ==
  /\ -ds.height <= rc[1] /\ rc[1] < ds.height
  /\ -ds.width <= rc[2] /\ rc[2] < ds.width

get_depth(lon, lat) ==
  IF ~bathymetry.open THEN -DEEP_WATER
  ELSE LET rc == RasterIndex(bathymetry, lon, lat)
       IN  IF InBand(bathymetry, rc)
           THEN bathymetry.band[(rc[2] % bathymetry.width) + 1]
           ELSE -DEEP_WATER

\* (variant: a point is taken for land when the land data cannot be asked)
is_on_land_failing_closed(lon, lat) ==
  IF ~land_polygons.loaded \/ land_polygons.geometry = <<>> THEN TRUE
  ELSE IF land_polygons.raises THEN TRUE
  ELSE \E k \in 1..Len(land_polygons.geometry) :
         contains(land_polygons.geometry[k], lon, lat)

is_on_land(lon, lat) ==
  IF ~land_polygons.loaded \/ land_polygons.geometry = <<>> THEN FALSE
  ELSE IF land_polygons.raises THEN FALSE
  ELSE \E k \in 1..Len(land_polygons.geometry) :
         contains(land_polygons.geometry[k], lon, lat)

\* np.arange(lo, hi, step) on integers
arange(lo, hi, step) ==
  [k \in 1..((hi - lo + step - 1) \div step) |-> lo + (k - 1) * step]

Min2(a, b) == IF a < b THEN a ELSE b
Max2(a, b) == IF a > b THEN a ELSE b

\* all lattice points, longitude-major, as the double loop visits them
Lattice(start, end) ==
  LET min_lon == Min2(start[2], end[2]) - PADDING
      max_lon == Max2(start[2], end[2]) + PADDING
      min_lat == Min2(start[1], end[1]) - PADDING
      max_lat == Max2(start[1], end[1]) + PADDING
      lons == arange(min_lon, max_lon + resolution, resolution)
      lats == arange(min_lat, max_lat + resolution, resolution)
  IN  [k \in 1..(Len(lons) * Len(lats)) |->
         <<lats[((k - 1) % Len(lats)) + 1], lons[((k - 1) \div Len(lats)) + 1]>>]

\* (variant: the land test is left out)
generate_water_grid_keeping_land(start, end) == Lattice(start, end)

\* (variant: the grid of the call on thread t1 is kept and reused)
generate_water_grid_cached(start, end) ==
  IF threads["t1"].nodes # <<>> THEN threads["t1"].nodes
  ELSE SelectSeq(Lattice(start, end), LAMBDA p : ~is_on_land(p[2], p[1]))

generate_water_grid(start, end) ==
  SelectSeq(Lattice(start, end), LAMBDA p : ~is_on_land(p[2], p[1]))

\* (variant: an average on a threshold gets the higher factor)
depth_penalty_for_inclusive(depth_a, depth_b) ==
  IF depth_a + depth_b >= -2 * VERY_SHALLOW THEN 10
  ELSE IF depth_a + depth_b >= -2 * SHALLOW THEN 5
  ELSE IF depth_a + depth_b >= -2 * MODERATE THEN 2
  ELSE 1

\* avg_depth = (depth_a + depth_b) / 2 against the thresholds, compared doubled
depth_penalty_for(depth_a, depth_b) ==
  IF depth_a + depth_b > -2 * VERY_SHALLOW THEN 10
  ELSE IF depth_a + depth_b > -2 * SHALLOW THEN 5
  ELSE IF depth_a + depth_b > -2 * MODERATE THEN 2
  ELSE 1

\* (variant: the penalty is applied whatever use_bathymetry says)
compute_edge_weight_ignoring_flag(node_a, node_b, use_bathymetry) ==
  IF ~bathymetry.open THEN haversine(node_a, node_b)
  ELSE haversine(node_a, node_b)
         * depth_penalty_for(get_depth(node_a[2], node_a[1]),
                             get_depth(node_b[2], node_b[1]))

compute_edge_weight(node_a, node_b, use_bathymetry) ==
  IF ~use_bathymetry \/ ~bathymetry.open THEN haversine(node_a, node_b)
  ELSE haversine(node_a, node_b)
         * depth_penalty_for(get_depth(node_a[2], node_a[1]),
                             get_depth(node_b[2], node_b[1]))

\* (variant: nodes exactly the connection distance apart are not joined)
WithinConnectDist_exclusive(node_a, node_b) ==
  (node_b[1] - node_a[1]) * (node_b[1] - node_a[1])
    + (node_b[2] - node_a[2]) * (node_b[2] - node_a[2])
    < MAX_CONNECT_DIST * MAX_CONNECT_DIST

\* np.hypot(dlat, dlon) <= MAX_CONNECT_DIST
WithinConnectDist(node_a, node_b) ==
  (node_b[1] - node_a[1]) * (node_b[1] - node_a[1])
    + (node_b[2] - node_a[2]) * (node_b[2] - node_a[2])
    <= MAX_CONNECT_DIST * MAX_CONNECT_DIST

\* G.add_edge(i, j, weight=..., distance=..., depth_penalty=...): the
\* attributes of the edge
add_edge(weight, distance_nm) ==
  [weight |-> weight,
   distance |-> distance_nm,
   depth_penalty |-> IF distance_nm > 0
                     THEN (100 * weight) \div distance_nm ELSE 100]

\* The attributes build_graph gives the edge i -- j.
EdgeAttrs(nds, i, j, use_bathymetry) ==
  add_edge(compute_edge_weight(nds[i], nds[j], use_bathymetry),
           haversine(nds[i], nds[j]))

\* The nx.Graph of build_graph over node indices 1..Len(nds) (the code counts
\* from 0): adj[u] lists u's neighbours in the order add_edge inserted them
\* (ascending), edge[<<i, j>>] with i < j holds the attributes.  A node is in
\* the graph only through an edge.
build_graph(nds, use_bathymetry) ==
  [adj |-> [u \in 1..Len(nds) |->
              SelectSeq([k \in 1..Len(nds) |-> k], LAMBDA v :
                u # v /\ WithinConnectDist(nds[u], nds[v]))],
   edge |-> [p \in {q \in (1..Len(nds)) \X (1..Len(nds)) :
                      q[1] < q[2] /\ WithinConnectDist(nds[q[1]], nds[q[2]])}
               |-> EdgeAttrs(nds, p[1], p[2], use_bathymetry)]]

InGraph(Gr, u) == Gr.adj[u] # <<>>
\* (variant: the emptiness test counts the water nodes, not the edges)
number_of_edges_counting_nodes(Gr) == Len(Gr.adj)
number_of_edges(Gr) == Cardinality(DOMAIN Gr.edge)
EdgeData(Gr, u, v) == Gr.edge[<<Min2(u, v), Max2(u, v)>>]

\* (variant: of several least distances the last one is taken)
argmin_last(distances) ==
  CHOOSE i \in 1..Len(distances) :
    /\ \A j \in 1..Len(distances) : distances[i] <= distances[j]
    /\ \A j \in (i + 1)..Len(distances) : distances[j] > distances[i]

\* int(np.argmin(distances)): the first index of the least distance
argmin(distances) ==
  CHOOSE i \in 1..Len(distances) :
    /\ \A j \in 1..Len(distances) : distances[i] <= distances[j]
    /\ \A j \in 1..(i - 1) : distances[j] > distances[i]

find_nearest_node(coord, nds) ==
  argmin([k \in 1..Len(nds) |-> haversine(coord, nds[k])])

\* heuristic=lambda n1, n2: haversine(nodes[n1], nodes[n2], unit='nmi')
\* (variant: the unit is left out, so the estimate is in kilometres)
heuristic_in_km(nds, n1, n2) == (haversine(nds[n1], nds[n2]) * 1852) \div 1000

heuristic(nds, n1, n2) == haversine(nds[n1], nds[n2])

\* ------------------------------------------------------- networkx astar_path
\* Heap entries are <<priority, count, node, dist, parent>>; heappop takes the
\* least (priority, count).  A parent of 0 is Python's None.
HeapMin(queue) ==
  CHOOSE e \in queue :
    \A f \in queue : e[1] < f[1] \/ (e[1] = f[1] /\ e[2] <= f[2])

\* enqueued[neighbor] = ncost, h; push(queue, (ncost + h, next(c), neighbor,
\* ncost, curnode)); st = [queue, enqueued, c]
AStarPush(curnode, neighbor, ncost, h, st) ==
  [queue |-> st.queue \cup {<<ncost + h, st.c, neighbor, ncost, curnode>>},
   enqueued |-> [st.enqueued EXCEPT ![neighbor] = <<ncost, h>>],
   c |-> st.c + 1]

\* the body of `for neighbor, w in G_succ[curnode].items()` for one neighbour
\* reached at cost ncost
AStarVisit(nds, target, curnode, neighbor, ncost, st) ==
  IF st.enqueued[neighbor] # <<>> /\ st.enqueued[neighbor][1] <= ncost
  THEN st
  ELSE AStarPush(curnode, neighbor, ncost,
                 IF st.enqueued[neighbor] # <<>>
                 THEN st.enqueued[neighbor][2]
                 ELSE heuristic(nds, neighbor, target),
                 st)

\* the loop over the neighbours of curnode from the k-th on
RECURSIVE AStarRelax(_, _, _, _, _, _, _)
AStarRelax(Gr, nds, target, curnode, dist, k, st) ==
  IF k > Len(Gr.adj[curnode]) THEN st
  ELSE AStarRelax(Gr, nds, target, curnode, dist, k + 1,
         AStarVisit(nds, target, curnode, Gr.adj[curnode][k],
                    dist + EdgeData(Gr, curnode, Gr.adj[curnode][k]).weight,
                    st))

\* path = [curnode]; node = parent; while node is not None: ...
RECURSIVE WalkBack(_, _)
\* (variant: the walk steps to the parent and back before it goes on)
WalkBack_repeating(explored, node) ==
  IF node = 0 THEN <<>>
  ELSE IF explored[node] = 0 THEN <<node>>
  ELSE <<node, explored[node], node>> \o WalkBack(explored, explored[node])

WalkBack(explored, node) ==
  IF node = 0 THEN <<>> ELSE <<node>> \o WalkBack(explored, explored[node])

Reverse(s) == [k \in 1..Len(s) |-> s[Len(s) + 1 - k]]

\* `while queue:` with e the entry heappop returns; explored[u] = -1 stands
\* for u not in explored, e = <<_, _, curnode, dist, parent>>
RECURSIVE AStarLoop(_, _, _, _, _)
AStarPop(Gr, nds, target, st, explored, e) ==
  IF e[3] = target
  THEN [raised |-> None,
        path |-> Reverse(<<e[3]>> \o WalkBack(explored, e[5]))]
  ELSE IF explored[e[3]] # -1
          /\ (explored[e[3]] = 0 \/ st.enqueued[e[3]][1] < e[4])
  THEN AStarLoop(Gr, nds, target, [st EXCEPT !.queue = @ \ {e}], explored)
  ELSE AStarLoop(Gr, nds, target,
         AStarRelax(Gr, nds, target, e[3], e[4], 1,
                    [st EXCEPT !.queue = @ \ {e}]),
         [explored EXCEPT ![e[3]] = e[5]])

AStarLoop(Gr, nds, target, st, explored) ==
  IF st.queue = {} THEN [raised |-> "NetworkXNoPath", path |-> <<>>]
  ELSE AStarPop(Gr, nds, target, st, explored, HeapMin(st.queue))

astar_path(Gr, nds, source, target) ==
  IF ~InGraph(Gr, source) \/ ~InGraph(Gr, target)
  THEN [raised |-> "NodeNotFound", path |-> <<>>]
  ELSE AStarLoop(Gr, nds, target,
         [queue |-> {<<0, 0, source, 0, 0>>},
          enqueued |-> [u \in 1..Len(nds) |-> <<>>],
          c |-> 1],
         [u \in 1..Len(nds) |-> -1])

\* --------------------------------------------------------- optimize_route
RECURSIVE SumOver(_, _)
SumOver(s, k) == IF k = 0 THEN 0 ELSE s[k] + SumOver(s, k - 1)
Sum(s) == SumOver(s, Len(s))

\* round(s / n, 2) for a sum s of n penalties held in hundredths, ties to even
RoundRatio(s, n) ==
  IF 2 * (s % n) < n THEN s \div n
  ELSE IF 2 * (s % n) > n THEN (s \div n) + 1
  ELSE IF (s \div n) % 2 = 0 THEN s \div n ELSE (s \div n) + 1

\* round(np.mean(xs), 2)
RoundMean(xs) == RoundRatio(Sum(xs), Len(xs))

NoWarning == "(no warning key)"

\* stands for the return value of a call that raised
NoValue ==
  [route |-> <<>>, total_distance_nm |-> 0, waypoint_count |-> 0,
   avg_depth_penalty |-> 0, bathymetry_enabled |-> FALSE, warning |-> NoWarning]

\* (variant: the fallback keeps reporting depth-aware routing)
DirectRoute_flag_on(start_coords, end_coords, warning) ==
  [route |-> <<start_coords, end_coords>>,
   total_distance_nm |-> Round2(haversine(start_coords, end_coords)),
   waypoint_count |-> 2,
   avg_depth_penalty |-> 100,
   bathymetry_enabled |-> TRUE,
   warning |-> warning]

DirectRoute(start_coords, end_coords, warning) ==
  [route |-> <<start_coords, end_coords>>,
   total_distance_nm |-> Round2(haversine(start_coords, end_coords)),
   waypoint_count |-> 2,
   avg_depth_penalty |-> 100,
   bathymetry_enabled |-> FALSE,
   warning |-> warning]

NoGraph == [adj |-> <<>>, edge |-> <<>>]

\* What optimize_route returns or raises (raised, value), with its locals
\* (nodes, G, start_idx, end_idx, path_indices) and the stages it went
\* through.  An index of 0 is a local never assigned.
Outcome(raised, value, nds, Gr, start_idx, end_idx, path_indices, stages_run) ==
  [raised |-> raised, value |-> value, nodes |-> nds, G |-> Gr,
   start_idx |-> start_idx, end_idx |-> end_idx,
   path_indices |-> path_indices, stages |-> stages_run]

\* (variant: the distance is summed over the penalized weights)
RouteMetrics_summing_weight(Gr, nds, path_indices, use_bathymetry) ==
  [route |-> [k \in 1..Len(path_indices) |-> nds[path_indices[k]]],
   total_distance_nm |->
     Round2(Sum([k \in 1..(Len(path_indices) - 1) |->
              EdgeData(Gr, path_indices[k], path_indices[k + 1]).weight])),
   waypoint_count |-> Len(path_indices),
   avg_depth_penalty |->
     IF Len(path_indices) > 1
     THEN RoundMean([k \in 1..(Len(path_indices) - 1) |->
            EdgeData(Gr, path_indices[k], path_indices[k + 1]).depth_penalty])
     ELSE 100,
   bathymetry_enabled |-> use_bathymetry,
   warning |-> NoWarning]

\* the metrics and the dict of the try block, for the path astar_path found
RouteMetrics(Gr, nds, path_indices, use_bathymetry) ==
  [route |-> [k \in 1..Len(path_indices) |-> nds[path_indices[k]]],
   total_distance_nm |->
     Round2(Sum([k \in 1..(Len(path_indices) - 1) |->
              EdgeData(Gr, path_indices[k], path_indices[k + 1]).distance])),
   waypoint_count |-> Len(path_indices),
   avg_depth_penalty |->
     IF Len(path_indices) > 1
     THEN RoundMean([k \in 1..(Len(path_indices) - 1) |->
            EdgeData(Gr, path_indices[k], path_indices[k + 1]).depth_penalty])
     ELSE 100,
   bathymetry_enabled |-> use_bathymetry,
   warning |-> NoWarning]

\* the try block once astar_path has returned or raised (found)
optimize_route_found(start_coords, end_coords, use_bathymetry, nds, Gr, start_idx, end_idx, found) ==
  IF found.raised = None
  THEN Outcome(None, RouteMetrics(Gr, nds, found.path, use_bathymetry),
               nds, Gr, start_idx, end_idx, found.path,
               {"grid", "graph", "nearest", "search"})
  ELSE IF found.raised = "NetworkXNoPath"
  THEN Outcome(None,
               DirectRoute(start_coords, end_coords,
                           "No path found, using direct route"),
               nds, Gr, start_idx, end_idx, <<>>,
               {"grid", "graph", "nearest", "search"})
  ELSE Outcome(found.raised, NoValue, nds, Gr, start_idx, end_idx, <<>>,
               {"grid", "graph", "nearest", "search"})

\* optimize_route from the graph on
optimize_route_on_graph(start_coords, end_coords, use_bathymetry, nds, Gr, start_idx, end_idx) ==
  IF number_of_edges(Gr) = 0
  THEN Outcome(None,
               DirectRoute(start_coords, end_coords,
                           "No navigable path found, using direct route"),
               nds, Gr, 0, 0, <<>>, {"grid", "graph"})
  ELSE optimize_route_found(start_coords, end_coords, use_bathymetry, nds, Gr,
                            start_idx, end_idx,
                            astar_path(Gr, nds, start_idx, end_idx))

\* optimize_route from the water grid on
optimize_route_on_grid(start_coords, end_coords, use_bathymetry, nds) ==
  IF Len(nds) < 2
  THEN Outcome(None,
               DirectRoute(start_coords, end_coords,
                           "Insufficient water nodes, using direct route"),
               nds, NoGraph, 0, 0, <<>>, {"grid"})
  ELSE optimize_route_on_graph(start_coords, end_coords, use_bathymetry, nds,
                               build_graph(nds, use_bathymetry),
                               find_nearest_node(start_coords, nds),
                               find_nearest_node(end_coords, nds))

optimize_route(start_coords, end_coords, use_bathymetry) ==
  optimize_route_on_grid(start_coords, end_coords, use_bathymetry,
                         generate_water_grid(start_coords, end_coords))

\* whole + num / den rounded to an integer, ties to even (num >= 0, den > 0)
RoundHalfEven(whole, num, den) ==
  IF 2 * (num % den) < den THEN whole + (num \div den)
  ELSE IF 2 * (num % den) > den THEN whole + (num \div den) + 1
  ELSE IF (whole + (num \div den)) % 2 = 0 THEN whole + (num \div den)
  ELSE whole + (num \div den) + 1

\* (variant: the depth penalty is left out of the fuel burnt)
estimate_fuel_and_emissions_without_penalty(distance_nm, depth_penalty) ==
  [fuel_cost_usd |-> RoundHalfEven(18 * distance_nm, 0, 1),
   emissions_tons |-> RoundHalfEven(0, 93 * distance_nm, 1000)]

\* estimate_fuel_and_emissions(distance_nm, depth_penalty) with the distance
\* in thousandths of a mile and the penalty in hundredths; both results in
\* hundredths (cents, hundredths of a ton).
\*   fuel_cost_usd  = distance * 0.3 * penalty * 600
\*   emissions_tons = distance * 0.3 * penalty * 3.1
\* The products are taken piecewise to stay inside 32-bit integers:
\*   cents      = dist * penalty * 9 / 50
\*   centi-tons = dist * penalty * 93 / 100000
estimate_fuel_and_emissions(distance_nm, depth_penalty) ==
  LET kc == 9 * depth_penalty
      qc == distance_nm \div 50
      rc == distance_nm % 50
      ke == 93 * depth_penalty
      qe == distance_nm \div 100000
      re == distance_nm % 100000
      hi == (re \div 1000) * ke
      lo == (re % 1000) * ke
  IN  [fuel_cost_usd |-> RoundHalfEven(qc * kc, rc * kc, 50),
       emissions_tons |-> RoundHalfEven(qe * ke + (hi \div 100),
                                        1000 * (hi % 100) + lo, 100000)]

\* ------------------------------------------------------------ data/ports.py
\* The registry, cut down to three of its ports and moved onto the model's
\* coordinate range (Singapore is 1.3521, 103.8198 in the source, and so on).
MAJOR_PORTS ==
  [p \in {"Singapore", "Shanghai", "Hong Kong"} |->
     CASE p = "Singapore" -> <<0, 0>>
       [] p = "Shanghai"  -> <<MaxLat, MaxLon>>
       [] p = "Hong Kong" -> <<MaxLat, 1>>]

\* get_port_coordinates: the coordinates, or the ValueError it raises
\* (variant: an unknown name falls back to a default port)
get_port_coordinates_defaulting(port_name) ==
  IF port_name \notin DOMAIN MAJOR_PORTS
  THEN [raised |-> None, value |-> MAJOR_PORTS["Singapore"]]
  ELSE [raised |-> None, value |-> MAJOR_PORTS[port_name]]

get_port_coordinates(port_name) ==
  IF port_name \notin DOMAIN MAJOR_PORTS
  THEN [raised |-> "ValueError", value |-> <<>>]
  ELSE [raised |-> None, value |-> MAJOR_PORTS[port_name]]

\* -------------------------------------------------------------- backend/app.py
Missing == "(missing key)"
NoRoute == <<>>
NoArgs == [start_coords |-> <<>>, end_coords |-> <<>>, use_bathymetry |-> FALSE]
NoResult == [raised |-> "(not called)", value |-> NoValue]
NoResponse == [status |-> 0]
NoLocals == [nodes |-> <<>>, G |-> NoGraph, start_idx |-> 0, end_idx |-> 0,
             path_indices |-> <<>>]

\* the except branch: jsonify({'success': False, ...}), 500
ErrorResponse(error_type) ==
  [status |-> 500, success |-> FALSE, error_type |-> error_type,
   optimized |-> NoRoute]

\* (variant: the warning of the router is not passed on)
RouteResponse_without_warning(origin, destination, origin_coords, destination_coords, optimized, direct_distance, opt_costs, direct_costs) ==
  [status |-> 200, success |-> TRUE, error_type |-> None,
   origin |-> [name |-> origin, coords |-> origin_coords],
   destination |-> [name |-> destination, coords |-> destination_coords],
   optimized |-> optimized.route,
   direct |-> <<origin_coords, destination_coords>>,
   opt_distance_nm |-> optimized.total_distance_nm,
   opt_fuel_cost_usd |-> opt_costs.fuel_cost_usd,
   opt_emissions_tons |-> opt_costs.emissions_tons,
   opt_depth_penalty |-> optimized.avg_depth_penalty,
   opt_waypoint_count |-> optimized.waypoint_count,
   direct_distance_nm |-> Round2(direct_distance),
   direct_fuel_cost_usd |-> direct_costs.fuel_cost_usd,
   direct_emissions_tons |-> direct_costs.emissions_tons,
   hazards |-> <<>>,
   bathymetry_enabled |-> optimized.bathymetry_enabled,
   warning |-> NoWarning]

\* the jsonify of the try block
RouteResponse(origin, destination, origin_coords, destination_coords, optimized, direct_distance, opt_costs, direct_costs) ==
  [status |-> 200, success |-> TRUE, error_type |-> None,
   origin |-> [name |-> origin, coords |-> origin_coords],
   destination |-> [name |-> destination, coords |-> destination_coords],
   optimized |-> optimized.route,
   direct |-> <<origin_coords, destination_coords>>,
   opt_distance_nm |-> optimized.total_distance_nm,
   opt_fuel_cost_usd |-> opt_costs.fuel_cost_usd,
   opt_emissions_tons |-> opt_costs.emissions_tons,
   opt_depth_penalty |-> optimized.avg_depth_penalty,
   opt_waypoint_count |-> optimized.waypoint_count,
   direct_distance_nm |-> Round2(direct_distance),
   direct_fuel_cost_usd |-> direct_costs.fuel_cost_usd,
   direct_emissions_tons |-> direct_costs.emissions_tons,
   hazards |-> <<>>,
   bathymetry_enabled |-> optimized.bathymetry_enabled,
   warning |-> optimized.warning]

\* the handler from direct_distance on
generate_route_api_costs(origin, destination, origin_coords, destination_coords, optimized, direct_distance) ==
  RouteResponse(origin, destination, origin_coords, destination_coords,
                optimized, direct_distance,
                estimate_fuel_and_emissions(10 * optimized.total_distance_nm,
                                            optimized.avg_depth_penalty),
                estimate_fuel_and_emissions(direct_distance, 100))

\* the handler once bathy_router.optimize_route has returned or raised (run)
generate_route_api_routed(origin, destination, use_bathymetry, origin_coords, destination_coords, run) ==
  [ran |-> TRUE, run |-> run,
   args |-> [start_coords |-> origin_coords, end_coords |-> destination_coords,
             use_bathymetry |-> use_bathymetry],
   response |->
     IF run.raised # None THEN ErrorResponse(run.raised)
     ELSE generate_route_api_costs(origin, destination, origin_coords,
            destination_coords, run.value,
            haversine(origin_coords, destination_coords))]

\* the handler once both ports have been looked up (o, d)
generate_route_api_ports(origin, destination, use_bathymetry, o, d) ==
  IF o.raised # None
  THEN [ran |-> FALSE, response |-> ErrorResponse(o.raised)]
  ELSE IF d.raised # None
  THEN [ran |-> FALSE, response |-> ErrorResponse(d.raised)]
  ELSE generate_route_api_routed(origin, destination, use_bathymetry,
         o.value, d.value, optimize_route(o.value, d.value, use_bathymetry))

\* data.get('origin', 'Singapore') and the like
get(value, default) == IF value = Missing THEN default ELSE value

\* The JSON body generate_route_api answers with, for a request whose keys may
\* be missing, together with the optimize_route call it made (ran = FALSE
\* when the handler failed before calling it).
generate_route_api(data) ==
  generate_route_api_ports(
    get(data.origin, "Singapore"), get(data.destination, "Shanghai"),
    get(data.use_bathymetry, "true") = "true",
    get_port_coordinates(get(data.origin, "Singapore")),
    get_port_coordinates(get(data.destination, "Shanghai")))

\* ------------------------------------------- routes/route_optimizer.py
\* The simple router.  Distances are thousandths of a nautical mile as above,
\* a weather penalty is held in tenths (8 = 0.8), a fuel cost in thousandths
\* of a dollar, emissions in 1e-5 tons; an edge weight is in thousandths.

\* hazard.get("radius", 5)
hazard_radius(hazard) == IF hazard.has_radius THEN hazard.radius ELSE 5

\* haversine(midpoint, hazard_center) < radius * 111, the distance in km
\* (1 nautical mile = 1.852 km)
NearHazard(midpoint, hazard) ==
  haversine(midpoint, hazard.center) * 1852 < hazard_radius(hazard) * 111000000

calculate_weather_risk(point1, point2, weather_data) ==
  IF \E k \in 1..Len(weather_data) :
       NearHazard(<<(point1[1] + point2[1]) \div 2,
                    (point1[2] + point2[2]) \div 2>>, weather_data[k])
  THEN 8 ELSE 0

\* distance_nm * 0.3 * 600 * (1 + weather_penalty * 0.5)
estimate_fuel_cost(distance_nm, weather_penalty) ==
  distance_nm * 9 * (20 + weather_penalty)

\* distance_nm * 0.3 * (1 + weather_penalty * 0.5) * 3.1
calculate_emissions(distance_nm, weather_penalty) ==
  (distance_nm * 93 * (20 + weather_penalty)) \div 20

\* 0.4 * distance_nm + 0.3 * (fuel_cost/1000) + 0.2 * weather_penalty * 1000
\*   + 0.1 * (emissions/10)
combined_weight(distance_nm, weather_penalty, fuel_cost, emissions) ==
  (4 * distance_nm + (3 * fuel_cost + emissions) \div 1000) \div 10
    + 20000 * weather_penalty

\* G.add_edge(i, j, weight=, distance=, fuel_cost=, emissions=, weather_risk=)
simple_edge(distance_nm, weather_penalty) ==
  [weight |-> combined_weight(distance_nm, weather_penalty,
                              estimate_fuel_cost(distance_nm, weather_penalty),
                              calculate_emissions(distance_nm, weather_penalty)),
   distance |-> distance_nm,
   fuel_cost |-> estimate_fuel_cost(distance_nm, weather_penalty),
   emissions |-> calculate_emissions(distance_nm, weather_penalty),
   weather_risk |-> weather_penalty]

\* distance_nm > MAX_SEGMENT_NM: continue
WithinSegment(point1, point2) == haversine(point1, point2) <= 1000 * MAX_SEGMENT_NM

\* The nx.Graph of create_route_graph, held like the graph of build_graph.
create_route_graph(waypoints, weather_data) ==
  [adj |-> [u \in 1..Len(waypoints) |->
              SelectSeq([k \in 1..Len(waypoints) |-> k], LAMBDA v :
                u # v /\ WithinSegment(waypoints[u], waypoints[v]))],
   edge |-> [p \in {q \in (1..Len(waypoints)) \X (1..Len(waypoints)) :
                      q[1] < q[2] /\ WithinSegment(waypoints[q[1]],
                                                   waypoints[q[2]])}
               |-> simple_edge(haversine(waypoints[p[1]], waypoints[p[2]]),
                               calculate_weather_risk(waypoints[p[1]],
                                                      waypoints[p[2]],
                                                      weather_data))]]

NoSimpleValue ==
  [route |-> <<>>, total_distance_nm |-> 0, total_fuel_cost_usd |-> 0,
   total_emissions_tons |-> 0, waypoint_count |-> 0, warning |-> NoWarning]

\* the dict of the try block: the totals over the edges of the route, each
\* rounded to two decimals (total_distance_nm is kept in thousandths)
SimpleTotals(Gr, all_waypoints, route_indices) ==
  [route |-> [k \in 1..Len(route_indices) |-> all_waypoints[route_indices[k]]],
   total_distance_nm |->
     10 * Round2(Sum([k \in 1..(Len(route_indices) - 1) |->
            EdgeData(Gr, route_indices[k], route_indices[k + 1]).distance])),
   total_fuel_cost_usd |->
     Round2(Sum([k \in 1..(Len(route_indices) - 1) |->
       EdgeData(Gr, route_indices[k], route_indices[k + 1]).fuel_cost])),
   total_emissions_tons |->
     RoundHalfEven(0, Sum([k \in 1..(Len(route_indices) - 1) |->
       EdgeData(Gr, route_indices[k], route_indices[k + 1]).emissions]), 1000),
   waypoint_count |-> Len(route_indices),
   warning |-> NoWarning]

\* the except nx.NetworkXNoPath branch; the distance is not rounded
SimpleDirect(start_coords, end_coords) ==
  [route |-> <<start_coords, end_coords>>,
   total_distance_nm |-> haversine(start_coords, end_coords),
   total_fuel_cost_usd |-> 0,
   total_emissions_tons |-> 0,
   waypoint_count |-> 2,
   warning |-> "No optimal path found, returning direct route"]

\* optimize_route once astar_path has returned or raised (found)
simple_optimize_found(start_coords, end_coords, all_waypoints, Gr, found) ==
  [raised |-> IF found.raised = "NetworkXNoPath" THEN None ELSE found.raised,
   value |-> IF found.raised = None
             THEN SimpleTotals(Gr, all_waypoints, found.path)
             ELSE IF found.raised = "NetworkXNoPath"
             THEN SimpleDirect(start_coords, end_coords)
             ELSE NoSimpleValue,
   all_waypoints |-> all_waypoints, G |-> Gr, route_indices |-> found.path]

\* optimize_route from the graph on
simple_optimize_on_graph(start_coords, end_coords, all_waypoints, Gr) ==
  simple_optimize_found(start_coords, end_coords, all_waypoints, Gr,
                        astar_path(Gr, all_waypoints, 1, Len(all_waypoints)))

\* optimize_route from all_waypoints on
simple_optimize_on(start_coords, end_coords, all_waypoints, weather_data) ==
  simple_optimize_on_graph(start_coords, end_coords, all_waypoints,
                           create_route_graph(all_waypoints, weather_data))

\* route_optimizer.optimize_route (app.py imports it as simple_optimize)
simple_optimize(start_coords, end_coords, waypoints, weather_data) ==
  simple_optimize_on(start_coords, end_coords,
                     <<start_coords>> \o waypoints \o <<end_coords>>,
                     weather_data)

\* ------------------------------------------------------------ state machine
\* no call of the simple router, none of estimate_fuel_and_emissions
NoSimple ==
  [pc |-> "idle", start_coords |-> <<>>, end_coords |-> <<>>,
   waypoints |-> <<>>, weather_data |-> <<>>,
   run |-> [raised |-> "(not called)", value |-> NoSimpleValue,
            all_waypoints |-> <<>>, G |-> NoGraph, route_indices |-> <<>>]]
\* compute_edge_weight has not returned yet
NoWeight == [made |-> FALSE, node_a |-> <<>>, node_b |-> <<>>, use_bathymetry |-> FALSE, weight |-> 0]
NoWeighing == [pc |-> "idle", node_a |-> <<>>, node_b |-> <<>>, use_bathymetry |-> FALSE, last |-> NoWeight, before |-> NoWeight]
\* build_graph_bathy.py has not been started
NoFile == [height |-> 0, column |-> <<>>]
NoScript == [pc |-> "idle", land_union |-> {}, bathy |-> NoFile, nodes |-> <<>>, depth_cache |-> <<>>, G |-> <<>>, done |-> 0]

\* no call of estimate_fuel_and_emissions made so far
NoCosts == [made |-> FALSE, distance_nm |-> 0, depth_penalty |-> 0, fuel_cost_usd |-> 0, emissions_tons |-> 0]
NoEstimate == [pc |-> "idle", distance_nm |-> 0, depth_penalty |-> 0, last |-> NoCosts, before |-> NoCosts]

\* the request threads of the server and what each holds of its call of
\* optimize_route: where it is (pc) and the call's arguments and locals
Threads == {"t1", "t2"}
IdleThread ==
  [pc |-> "idle", args |-> NoArgs, nodes |-> <<>>, G |-> NoGraph,
   start_idx |-> 0, end_idx |-> 0, result |-> NoResult, met |-> FALSE]
NoThreads == [t \in Threads |-> IdleThread]

Coords == (0..MaxLat) \X (0..MaxLon)
PortNames == {"Singapore", "Shanghai", "Atlantis", Missing}
\* the JSON values of the use_bathymetry key
Flags == {"true", "false", Missing}

Cleared ==
  /\ stages' = {}
  /\ args' = NoArgs
  /\ locals' = NoLocals
  /\ result' = NoResult
  /\ response' = NoResponse

Init ==
  /\ resolution \in Resolutions
  /\ bathymetry \in {NoRaster} \cup Rasters
  /\ land_polygons \in {NoLand} \cup LandFrames
  /\ pc = "idle"
  /\ request = [kind |-> "none"]
  /\ stages = {}
  /\ args = NoArgs
  /\ locals = NoLocals
  /\ result = NoResult
  /\ response = NoResponse
  /\ threads = NoThreads
  /\ simple = NoSimple
  /\ estimate = NoEstimate
  /\ weighing = NoWeighing
  /\ script = NoScript

\* a caller is about to invoke bathy_router.optimize_route
Call(start_coords, end_coords, use_bathymetry) ==
  /\ pc = "idle"
  /\ pc' = "pending"
  /\ request' = [kind |-> "call", start_coords |-> start_coords,
                 end_coords |-> end_coords, use_bathymetry |-> use_bathymetry]
  /\ Cleared
  /\ UNCHANGED <<weighing, script, simple, estimate, threads, resolution, bathymetry, land_polygons>>

\* a client posts to /api/generate-route
Post(origin, destination, use_bathymetry) ==
  /\ pc = "idle"
  /\ pc' = "pending"
  /\ request' = [kind |-> "http", origin |-> origin,
                 destination |-> destination,
                 use_bathymetry |-> use_bathymetry]
  /\ Cleared
  /\ UNCHANGED <<weighing, script, simple, estimate, threads, resolution, bathymetry, land_polygons>>

\* the call's outcome as the state keeps it
Ran(run, a, st) ==
  /\ stages' = st \cup run.stages
  /\ args' = a
  /\ locals' = [nodes |-> run.nodes, G |-> run.G,
                 start_idx |-> run.start_idx, end_idx |-> run.end_idx,
                 path_indices |-> run.path_indices]
  /\ result' = [raised |-> run.raised, value |-> run.value]

\* BathymetryRouter.optimize_route, called directly
OptimizeRoute ==
  /\ pc = "pending"
  /\ request.kind = "call"
  /\ Ran(optimize_route(request.start_coords, request.end_coords,
                        request.use_bathymetry),
         [start_coords |-> request.start_coords,
          end_coords |-> request.end_coords,
          use_bathymetry |-> request.use_bathymetry], {})
  /\ pc' = "done"
  /\ UNCHANGED <<weighing, script, simple, estimate, threads, resolution, bathymetry, land_polygons, request, response>>

Answered(served) ==
  /\ response' = served.response
  /\ IF served.ran
     THEN Ran(served.run, served.args, {"lookup"})
     ELSE /\ stages' = {"lookup"}
          /\ UNCHANGED <<args, locals, result>>

\* the /api/generate-route handler
GenerateRouteApi ==
  /\ pc = "pending"
  /\ request.kind = "http"
  /\ Answered(generate_route_api(request))
  /\ pc' = "done"
  /\ UNCHANGED <<weighing, script, simple, estimate, threads, resolution, bathymetry, land_polygons, request>>

\* the served call is over: its result is with the caller, its locals are gone
Return ==
  /\ pc = "done"
  /\ pc' = "idle"
  /\ request' = [kind |-> "none"]
  /\ Cleared
  /\ UNCHANGED <<weighing, script, simple, estimate, threads, resolution, bathymetry, land_polygons>>

Next ==
  \/ \E s \in Coords, e \in Coords, ub \in BOOLEAN : Call(s, e, ub)
  \/ \E o \in PortNames, d \in PortNames, ub \in Flags : Post(o, d, ub)
  \/ OptimizeRoute
  \/ GenerateRouteApi
  \/ Return

Spec == Init /\ [][Next]_vars

\* ------------------------------------------- calls running side by side
\* generate_route_api runs on one thread per request and every thread calls
\* optimize_route on the one bathy_router; a thread is preempted between any
\* two statements.  The steps below are the statements of optimize_route that
\* read the router or the call's locals.

\* the calls the threads make
SharedCalls ==
  {[start_coords |-> <<0, 0>>, end_coords |-> <<MaxLat, MaxLon>>,
    use_bathymetry |-> TRUE],
   [start_coords |-> <<0, 0>>, end_coords |-> <<MaxLat, MaxLon>>,
    use_bathymetry |-> FALSE],
   [start_coords |-> <<MaxLat, 1>>, end_coords |-> <<0, 0>>,
    use_bathymetry |-> TRUE],
   [start_coords |-> <<0, 1>>, end_coords |-> <<0, 0>>,
    use_bathymetry |-> FALSE]}

\* another thread is inside optimize_route
Overlaps(t) ==
  \E u \in Threads \ {t} : threads[u].pc \notin {"idle", "done"}

\* (variant: the node list is kept in one slot of the router)
nodes_of_router(t) == threads["t1"].nodes
\* the local `nodes` of the call on thread t
nodes_of(t) == threads[t].nodes

\* the local `G` of the call on thread t
graph_of(t) == threads[t].G

\* thread t takes a step that leaves its record as th
Step(t, th) ==
  /\ threads' = [threads EXCEPT
                   ![t] = [th EXCEPT !.met = threads[t].met \/ Overlaps(t)]]
  /\ UNCHANGED <<weighing, script, simple, estimate, resolution, bathymetry, land_polygons, pc,
                 request, stages, args, locals, result, response>>

\* the early return of a fallback
ReturnDirect(th, warning) ==
  [th EXCEPT !.pc = "done",
             !.result = [raised |-> None,
                         value |-> DirectRoute(th.args.start_coords,
                                               th.args.end_coords, warning)]]

\* optimize_route is entered.  An opened raster is read by one call at a
\* time: app.py opens none, and calls overlap only on a router without one.
Invoke(t, call) ==
  /\ threads[t].pc = "idle"
  /\ bathymetry.open => ~Overlaps(t)
  /\ Step(t, [IdleThread EXCEPT !.pc = "grid", !.args = call])

\* nodes = self.generate_water_grid(...); if len(nodes) < 2: return {...}
GridDone(th, nds) ==
  IF Len(nds) < 2
  THEN ReturnDirect([th EXCEPT !.nodes = nds],
                    "Insufficient water nodes, using direct route")
  ELSE [th EXCEPT !.nodes = nds, !.pc = "graph"]

GridStep(t) ==
  /\ threads[t].pc = "grid"
  /\ Step(t, GridDone(threads[t],
                      generate_water_grid(threads[t].args.start_coords,
                                          threads[t].args.end_coords)))

\* G = self.build_graph(nodes, use_bathymetry);
\* if G.number_of_edges() == 0: return {...}
GraphDone(th, Gr) ==
  IF number_of_edges(Gr) = 0
  THEN ReturnDirect([th EXCEPT !.G = Gr],
                    "No navigable path found, using direct route")
  ELSE [th EXCEPT !.G = Gr, !.pc = "nearest"]

GraphStep(t) ==
  /\ threads[t].pc = "graph"
  /\ Step(t, GraphDone(threads[t],
                       build_graph(nodes_of(t), threads[t].args.use_bathymetry)))

\* start_idx = self.find_nearest_node(start_coords, nodes); end_idx = ...
NearestStep(t) ==
  /\ threads[t].pc = "nearest"
  /\ Step(t, [threads[t] EXCEPT
                !.start_idx = find_nearest_node(threads[t].args.start_coords,
                                                nodes_of(t)),
                !.end_idx = find_nearest_node(threads[t].args.end_coords,
                                              nodes_of(t)),
                !.pc = "search"])

\* the try block
SearchDone(th, outcome) ==
  [th EXCEPT !.pc = "done",
             !.result = [raised |-> outcome.raised, value |-> outcome.value]]

SearchStep(t) ==
  /\ threads[t].pc = "search"
  /\ Step(t, SearchDone(threads[t],
               optimize_route_found(
                 threads[t].args.start_coords, threads[t].args.end_coords,
                 threads[t].args.use_bathymetry, nodes_of(t), graph_of(t),
                 threads[t].start_idx, threads[t].end_idx,
                 astar_path(graph_of(t), nodes_of(t), threads[t].start_idx,
                            threads[t].end_idx))))

\* the caller has the result; the thread takes the next request
Finish(t) ==
  /\ threads[t].pc = "done"
  /\ Step(t, IdleThread)

InitShared == Init

NextShared ==
  \/ \E t \in Threads, call \in SharedCalls : Invoke(t, call)
  \/ \E t \in Threads : GridStep(t)
  \/ \E t \in Threads : GraphStep(t)
  \/ \E t \in Threads : NearestStep(t)
  \/ \E t \in Threads : SearchStep(t)
  \/ \E t \in Threads : Finish(t)

SpecShared == InitShared /\ [][NextShared]_vars

\* --------------------------------------------- the simple router, called
\* The coordinates are even, so that the midpoint of two of them is whole.
SimpleStarts == {<<0, 0>>}
SimpleEnds == {<<0, 14>>, <<0, 8>>}
SimplePoints == {<<0, 6>>, <<2, 8>>, <<0, 8>>, <<4, 4>>, <<0, 0>>}
\* waypoint lists of up to MaxWaypoints points
WaypointLists ==
  UNION {[1..n -> SimplePoints] : n \in 0..MaxWaypoints}
\* no hazard; a hazard of radius 1 on the equator; one without a radius key
WeatherData ==
  {<<>>,
   << [center |-> <<0, 4>>, has_radius |-> TRUE, radius |-> 1] >>,
   << [center |-> <<2, 6>>, has_radius |-> FALSE, radius |-> 0] >>}

\* route_optimizer.optimize_route is called and returns or raises
SimpleOptimize(start_coords, end_coords, waypoints, weather_data) ==
  /\ simple.pc = "idle"
  /\ simple' = [pc |-> "done",
                start_coords |-> start_coords, end_coords |-> end_coords,
                waypoints |-> waypoints, weather_data |-> weather_data,
                run |-> simple_optimize(start_coords, end_coords, waypoints,
                                        weather_data)]
  /\ UNCHANGED <<weighing, script, estimate, threads, resolution, bathymetry, land_polygons, pc,
                 request, stages, args, locals, result, response>>

\* the caller has the result
SimpleReturn ==
  /\ simple.pc = "done"
  /\ simple' = NoSimple
  /\ UNCHANGED <<weighing, script, estimate, threads, resolution, bathymetry, land_polygons, pc,
                 request, stages, args, locals, result, response>>

NextSimple ==
  \/ \E s \in SimpleStarts, e \in SimpleEnds, w \in WaypointLists,
        h \in WeatherData : SimpleOptimize(s, e, w, h)
  \/ SimpleReturn

SpecSimple == Init /\ [][NextSimple]_vars

\* ------------------------------- estimate_fuel_and_emissions, called directly
\* distances in thousandths of a nautical mile: none, a thousandth, values
\* whose costs fall on and next to a rounding tie, and whole legs
Distances == {0, 1, 25, 1852, 33333, 100000}
\* the four factors compute_edge_weight uses and a mean of them
Penalties == {100, 120, 135, 150, 200}

\* a caller passes the two arguments
Estimate(distance_nm, depth_penalty) ==
  /\ estimate.pc = "idle"
  /\ estimate' = [estimate EXCEPT !.pc = "called", !.distance_nm = distance_nm, !.depth_penalty = depth_penalty]
  /\ UNCHANGED <<weighing, script, resolution, bathymetry, land_polygons, pc, request, stages, args, locals, result, response, threads, simple>>

CostsOf(distance_nm, depth_penalty, costs) == [made |-> TRUE, distance_nm |-> distance_nm, depth_penalty |-> depth_penalty, fuel_cost_usd |-> costs.fuel_cost_usd, emissions_tons |-> costs.emissions_tons]

\* the function returns its dictionary; the caller keeps it next to the one
\* it got from the call before
EstimateReturn ==
  /\ estimate.pc = "called"
  /\ estimate' = [estimate EXCEPT !.pc = "idle", !.before = estimate.last, !.last = CostsOf(estimate.distance_nm, estimate.depth_penalty, estimate_fuel_and_emissions(estimate.distance_nm, estimate.depth_penalty))]
  /\ UNCHANGED <<weighing, script, resolution, bathymetry, land_polygons, pc, request, stages, args, locals, result, response, threads, simple>>

NextEstimate ==
  \/ \E d \in Distances, p \in Penalties : Estimate(d, p)
  \/ EstimateReturn

\* the function is module-level and takes nothing from a router: the router
\* stays the one without datasets
InitEstimate == Init /\ ~bathymetry.open /\ ~land_polygons.loaded /\ (\A r \in Resolutions : resolution <= r)

SpecEstimate == InitEstimate /\ [][NextEstimate]_vars

\* ------------------------------------- compute_edge_weight, called directly
\* a raster whose columns lie on and next to the three depth thresholds
Ledge == [open |-> TRUE, left |-> 0, top |-> 4, width |-> 8, height |-> 8,
          band |-> <<-50, -100, -200, -49, -51, -150, -250, -3000>>]

\* the two ends of an edge: a node on each of two neighbouring rows
EdgeEnds == {<<0, lon>> : lon \in {0, 1, 2, 3, 5}}
EdgeFars == {<<1, lon>> : lon \in {0, 1, 2, 4, 6}}

\* a caller passes two nodes and the flag
Weigh(node_a, node_b, use_bathymetry) ==
  /\ weighing.pc = "idle"
  /\ weighing' = [weighing EXCEPT !.pc = "called", !.node_a = node_a, !.node_b = node_b, !.use_bathymetry = use_bathymetry]
  /\ UNCHANGED <<script, estimate, resolution, bathymetry, land_polygons, pc, request, stages, args, locals, result, response, threads, simple>>

WeightOf(node_a, node_b, use_bathymetry, weight) == [made |-> TRUE, node_a |-> node_a, node_b |-> node_b, use_bathymetry |-> use_bathymetry, weight |-> weight]

\* the method returns the weight; the caller keeps it next to the one it got
\* from the call before
WeighReturn ==
  /\ weighing.pc = "called"
  /\ weighing' = [weighing EXCEPT !.pc = "idle", !.before = weighing.last, !.last = WeightOf(weighing.node_a, weighing.node_b, weighing.use_bathymetry, compute_edge_weight(weighing.node_a, weighing.node_b, weighing.use_bathymetry))]
  /\ UNCHANGED <<script, estimate, resolution, bathymetry, land_polygons, pc, request, stages, args, locals, result, response, threads, simple>>

NextWeigh ==
  \/ \E a \in EdgeEnds, b \in EdgeFars, f \in BOOLEAN : Weigh(a, b, f)
  \/ WeighReturn

\* a router with or without a depth raster and without land data
InitWeigh ==
  /\ resolution \in Resolutions /\ (\A r \in Resolutions : resolution <= r)
  /\ bathymetry \in {NoRaster, Ledge}
  /\ land_polygons = NoLand
  /\ pc = "idle"
  /\ request = [kind |-> "none"]
  /\ stages = {}
  /\ args = NoArgs
  /\ locals = NoLocals
  /\ result = NoResult
  /\ response = NoResponse
  /\ threads = NoThreads
  /\ simple = NoSimple
  /\ estimate = NoEstimate
  /\ weighing = NoWeighing
  /\ script = NoScript

SpecWeigh == InitWeigh /\ [][NextWeigh]_vars

\* ------------------------------------------------------ build_graph_bathy.py
\* The script's lattice, cut down to three by three points and counted in
\* steps: the point <<lon, lat>> stands for (90 + 0.1 lon, -10 + 0.1 lat).
\* Distances are thousandths of a step; a penalty is kept in fifteen
\* thousandths (15000 = factor 1.0), which makes 0.8 / 3000 a whole number.
ScriptLons == 0..2
ScriptLats == 0..2
target_depth == 3000
nodata == -32768
\* np.nan, which no depth equals (a depth is an absolute value)
NaN == -1

\* hypot(dlon, dlat) for offsets of one step: 1 or the square root of 2
hypot(dlon, dlat) == IF dlon # 0 /\ dlat # 0 THEN 1414 ELSE 1000

\* land_union: the set of lattice points contains_xy puts on land
LandUnions == {{}, {<<1, 1>>}, {<<1, 0>>, <<1, 1>>, <<1, 2>>}, {<<0, 0>>, <<0, 1>>, <<1, 0>>}}

\* the elevations a raster cell may hold
Elevations == {-11000, -3000, 50, nodata}

\* the rasters: the value depends on the column only, and the raster holds
\* the rows below height (a lattice row at or above it is outside)
BathyFiles == [height : {2, 3}, column : [ScriptLons -> Elevations]]

\* get_depth_fast(lon, lat)
get_depth_fast(bathy, lon, lat) ==
  IF 0 <= lat /\ lat < bathy.height /\ lon \in DOMAIN bathy.column
  THEN IF bathy.column[lon] = nodata THEN NaN ELSE Abs(bathy.column[lon])
  ELSE NaN

\* LON, LAT = np.meshgrid(lons, lats), flattened: row by row of latitude
Meshgrid == [k \in 1..(Cardinality(ScriptLons) * Cardinality(ScriptLats)) |-> <<(k - 1) % Cardinality(ScriptLons), (k - 1) \div Cardinality(ScriptLons)>>]

\* (variant: the penalty is not clamped)
penalty_unclamped(depth_a, depth_b) == 15000 + 2 * Abs(depth_a + depth_b - 2 * target_depth)

\* penalty = min(1.0 + penalty_factor * abs(avg_depth - target_depth) / target_depth, 3.0)
penalty(depth_a, depth_b) == Min2(15000 + 2 * Abs(depth_a + depth_b - 2 * target_depth), 45000)

\* offsets: the eight neighbours
offsets == {d \in {-1, 0, 1} \X {-1, 0, 1} : d # <<0, 0>>}

\* the neighbours of node the inner loop adds an edge to
Joined(node, node_set, depth_cache) == {<<node[1] + d[1], node[2] + d[2]>> : d \in {o \in offsets : <<node[1] + o[1], node[2] + o[2]>> \in node_set /\ depth_cache[node] # NaN /\ depth_cache[<<node[1] + o[1], node[2] + o[2]>>] # NaN}}

\* G.add_edge((lon, lat), (nlon, nlat), weight=dist * penalty) for one
\* neighbour; an edge is kept under the set of its two ends
EdgeWeight(node, other, depth_cache) == hypot(other[1] - node[1], other[2] - node[2]) * penalty(depth_cache[node], depth_cache[other])

\* one pass of `for lon, lat in tqdm(nodes)`
AddEdgesOf(Gr, node, others, depth_cache) == [e \in DOMAIN Gr \cup {{node, n} : n \in others} |-> IF \E n \in others : e = {node, n} THEN EdgeWeight(node, CHOOSE n \in others : e = {node, n}, depth_cache) ELSE Gr[e]]

\* sections 1 and 2: the land polygons and the raster are read
ScriptLoad(land_union, bathy) ==
  /\ script.pc = "idle"
  /\ script' = [script EXCEPT !.pc = "loaded", !.land_union = land_union, !.bathy = bathy]
  /\ UNCHANGED <<weighing, estimate, resolution, bathymetry, land_polygons, pc, request, stages, args, locals, result, response, threads, simple>>

\* sections 3 and 4: the water nodes
ScriptWaterNodes ==
  /\ script.pc = "loaded"
  /\ script' = [script EXCEPT !.pc = "nodes", !.nodes = SelectSeq(Meshgrid, LAMBDA p : p \notin script.land_union)]
  /\ UNCHANGED <<weighing, estimate, resolution, bathymetry, land_polygons, pc, request, stages, args, locals, result, response, threads, simple>>

\* section 5: depth_cache
ScriptCacheDepths ==
  /\ script.pc = "nodes"
  /\ script' = [script EXCEPT !.pc = "edges", !.depth_cache = [node \in {script.nodes[k] : k \in 1..Len(script.nodes)} |-> get_depth_fast(script.bathy, node[1], node[2])]]
  /\ UNCHANGED <<weighing, estimate, resolution, bathymetry, land_polygons, pc, request, stages, args, locals, result, response, threads, simple>>

\* section 6: the outer loop takes the next node
ScriptAddEdges ==
  /\ script.pc = "edges"
  /\ script.done < Len(script.nodes)
  /\ script' = [script EXCEPT !.done = @ + 1, !.G = AddEdgesOf(script.G, script.nodes[script.done + 1], Joined(script.nodes[script.done + 1], DOMAIN script.depth_cache, script.depth_cache), script.depth_cache)]
  /\ UNCHANGED <<weighing, estimate, resolution, bathymetry, land_polygons, pc, request, stages, args, locals, result, response, threads, simple>>

\* section 7: the graph is pickled
ScriptSave ==
  /\ script.pc = "edges"
  /\ script.done = Len(script.nodes)
  /\ script' = [script EXCEPT !.pc = "saved"]
  /\ UNCHANGED <<weighing, estimate, resolution, bathymetry, land_polygons, pc, request, stages, args, locals, result, response, threads, simple>>

NextScript ==
  \/ \E l \in LandUnions, b \in BathyFiles : ScriptLoad(l, b)
  \/ ScriptWaterNodes
  \/ ScriptCacheDepths
  \/ ScriptAddEdges
  \/ ScriptSave

\* the script stands alone: no router is constructed
SpecScript == InitEstimate /\ [][NextScript]_vars

\* ===================================================================== claims
\* Vocabulary of the properties below.
Served == pc = "done"
\* optimize_route was entered (directly or from the handler) and has ended
Routed == Served /\ "grid" \in stages
Returned == Routed /\ result.raised = None
\* the route came out of the A* search, not out of a fallback
GraphFound == Returned /\ "search" \in stages /\ result.value.warning = NoWarning
HttpServed == Served /\ request.kind = "http"

\* the least total weight of a walk from s to each node of Gr (-1: none),
\* by relaxing every edge until nothing changes
RECURSIVE LeastWeights(_, _)
LeastWeights(Gr, d) ==
  LET Via(v) == {d[Gr.adj[v][k]] + EdgeData(Gr, v, Gr.adj[v][k]).weight :
                   k \in {k \in 1..Len(Gr.adj[v]) : d[Gr.adj[v][k]] >= 0}}
      Cand(v) == Via(v) \cup (IF d[v] >= 0 THEN {d[v]} ELSE {})
      nxt == [v \in DOMAIN d |->
                IF Cand(v) = {} THEN -1
                ELSE CHOOSE x \in Cand(v) : \A y \in Cand(v) : x <= y]
  IN  IF nxt = d THEN d ELSE LeastWeights(Gr, nxt)

LeastWeightFrom(Gr, s) ==
  LeastWeights(Gr, [v \in DOMAIN Gr.adj |-> IF v = s THEN 0 ELSE -1])

PathWeight(Gr, path) ==
  Sum([k \in 1..(Len(path) - 1) |-> EdgeData(Gr, path[k], path[k + 1]).weight])

\* C1: every edge of a graph build_graph returns has weight >= its
\* great-circle distance and depth_penalty >= 1.0; with use_bathymetry false
\* the weight equals the distance and the penalty is exactly 1.0.
C1_WeightAtLeastDistance ==
  (Routed /\ "graph" \in stages) =>
    \A p \in DOMAIN locals.G.edge :
      LET e == locals.G.edge[p]
          gc == haversine(locals.nodes[p[1]], locals.nodes[p[2]])
      IN  /\ e.weight >= gc
          /\ e.depth_penalty >= 100
          /\ ~args.use_bathymetry => (e.weight = gc /\ e.depth_penalty = 100)

\* a graph built with penalties on, holding a x10 edge and a x1 edge
C1_Witness ==
  /\ Routed /\ "graph" \in stages /\ args.use_bathymetry
  /\ \E p \in DOMAIN locals.G.edge : locals.G.edge[p].depth_penalty = 1000
  /\ \E p \in DOMAIN locals.G.edge : locals.G.edge[p].depth_penalty = 100

\* C2: the weight of a graph-found route is <= the weight of every other
\* path of the same graph from the node nearest the origin to the node
\* nearest the destination.
C2_AStarPathIsLightest ==
  GraphFound =>
    /\ locals.path_indices[1] = locals.start_idx
    /\ locals.path_indices[Len(locals.path_indices)] = locals.end_idx
    /\ PathWeight(locals.G, locals.path_indices)
         <= LeastWeightFrom(locals.G, locals.start_idx)[locals.end_idx]

\* a route of four or more nodes found in a graph with depth penalties, where
\* the straight line between the two end nodes is not what the search took
C2_Witness ==
  /\ GraphFound /\ args.use_bathymetry /\ bathymetry.open
  /\ Len(locals.path_indices) >= 4
  /\ PathWeight(locals.G, locals.path_indices)
       > haversine(locals.nodes[locals.start_idx], locals.nodes[locals.end_idx])

\* C3: with fewer than 2 water nodes optimize_route searches no graph and
\* returns the direct route [origin, destination] with waypoint_count 2,
\* bathymetry_enabled false and a non-empty warning, whatever use_bathymetry.
C3_TooFewNodesGivesDirectRoute ==
  (Routed /\ Len(locals.nodes) < 2) =>
    /\ result.raised = None
    /\ result.value.route = <<args.start_coords, args.end_coords>>
    /\ result.value.waypoint_count = 2
    /\ result.value.bathymetry_enabled = FALSE
    /\ result.value.warning \notin {NoWarning, ""}
    /\ "search" \notin stages
    /\ locals.path_indices = <<>>

\* too few nodes on a call that asked for depth-aware routing
C3_Witness ==
  Routed /\ Len(locals.nodes) < 2 /\ args.use_bathymetry /\ bathymetry.open

\* C4: optimize_route never raises, and whenever the nearest nodes of origin
\* and destination are not connected (also when one of them has no edge while
\* other edges exist) it returns the direct route with a warning.
C4_NeverRaises ==
  Routed =>
    /\ result.raised = None
    /\ (/\ locals.start_idx # 0
        /\ LeastWeightFrom(locals.G, locals.start_idx)[locals.end_idx] < 0)
       => /\ result.value.route = <<args.start_coords, args.end_coords>>
          /\ result.value.warning \notin {NoWarning, ""}

\* what optimize_route returns in the insufficient-nodes case
InsufficientNodesResult(start_coords, end_coords) ==
  [route |-> <<start_coords, end_coords>>,
   total_distance_nm |-> Round2(haversine(start_coords, end_coords)),
   waypoint_count |-> 2,
   avg_depth_penalty |-> 100,
   bathymetry_enabled |-> FALSE,
   warning |-> "Insufficient water nodes, using direct route"]

\* build_graph ran and joined no two nodes
ZeroEdgeCase ==
  Routed /\ Len(locals.nodes) >= 2 /\ DOMAIN locals.G.edge = {}

\* C5 as claimed: with a graph of zero edges the result is the result of the
\* insufficient-nodes case, warning included.
C5_ZeroEdgesSameAsTooFewNodes ==
  ZeroEdgeCase =>
    /\ result.raised = None
    /\ result.value = InsufficientNodesResult(args.start_coords, args.end_coords)

\* C5 (amended): with a graph of zero edges the result has the route,
\* total_distance_nm, waypoint_count, avg_depth_penalty and bathymetry_enabled
\* of the insufficient-nodes case, and its own warning "No navigable path
\* found, using direct route".
C5_ZeroEdgesDirectRouteOwnWarning ==
  ZeroEdgeCase =>
    /\ result.raised = None
    /\ [result.value EXCEPT !.warning = "Insufficient water nodes, using direct route"]
         = InsufficientNodesResult(args.start_coords, args.end_coords)
    /\ result.value.warning = "No navigable path found, using direct route"
    /\ "search" \notin stages

\* two or more water nodes, none within reach of another
C5_Witness == ZeroEdgeCase /\ args.start_coords # args.end_coords

\* the port names the handler looks up
RequestedOrigin ==
  IF request.origin = Missing THEN "Singapore" ELSE request.origin
RequestedDestination ==
  IF request.destination = Missing THEN "Shanghai" ELSE request.destination

\* C6: a request naming an unknown origin or destination fails with the
\* unknown-port error before any routing stage runs, with success false and
\* no route; a request naming two known ports never fails with that error.
C6_UnknownPortRejected ==
  HttpServed =>
    IF RequestedOrigin \in DOMAIN MAJOR_PORTS
       /\ RequestedDestination \in DOMAIN MAJOR_PORTS
    THEN response.error_type # "ValueError"
    ELSE /\ response.success = FALSE
         /\ response.error_type = "ValueError"
         /\ response.optimized = NoRoute
         /\ stages = {"lookup"}
         /\ result = NoResult
         /\ locals = NoLocals

\* "Atlantis" as the destination of a request whose origin is known
C6_Witness ==
  /\ HttpServed /\ request.destination = "Atlantis"
  /\ request.origin = "Singapore" /\ response.status = 500

\* C7: with origin = destination the optimized route is [coord, coord],
\* total_distance_nm is 0 and the optimized fuel_cost_usd is 0.
C7_SameOriginAndDestination ==
  (Returned /\ args.start_coords = args.end_coords) =>
    /\ result.value.route = <<args.start_coords, args.end_coords>>
    /\ result.value.total_distance_nm = 0
    /\ request.kind = "http" => response.opt_fuel_cost_usd = 0

\* C8: bathymetry_enabled is true only if depth penalties were applied to the
\* edge weights; without a depth raster every result and every HTTP response
\* reports false.
C8_FlagOnlyWhenPenaltiesApplied ==
  Returned =>
    /\ result.value.bathymetry_enabled
         => (args.use_bathymetry /\ bathymetry.open)
    /\ ~bathymetry.open =>
         /\ ~result.value.bathymetry_enabled
         /\ request.kind = "http" => ~response.bathymetry_enabled

\* C9: the total_distance_nm of a graph-found route is >= the direct
\* great-circle distance between the requested origin and destination.
C9_RouteAtLeastDirectDistance ==
  GraphFound =>
    result.value.total_distance_nm
      >= Round2(haversine(args.start_coords, args.end_coords))

\* C10: every result has waypoint_count >= 2 and a route of at least two
\* coordinates.
C10_AtLeastTwoWaypoints ==
  Returned =>
    /\ result.value.waypoint_count >= 2
    /\ Len(result.value.route) >= 2

\* a thread's call has ended
Done(t) == threads[t].pc = "done"
\* ... with a route out of the A* search
DoneGraphFound(t) ==
  /\ Done(t) /\ threads[t].result.raised = None
  /\ threads[t].result.value.warning = NoWarning /\ threads[t].start_idx # 0

Alone(call) ==
  [raised |-> optimize_route(call.start_coords, call.end_coords,
                             call.use_bathymetry).raised,
   value |-> optimize_route(call.start_coords, call.end_coords,
                            call.use_bathymetry).value]

\* C18: calls interleaved on the shared router do not interfere: no step of
\* optimize_route writes resolution, bathymetry or land_polygons, and the
\* result of every call is the result of that call run alone.
C18_RequestsDoNotInterfere ==
  /\ [](\A t \in Threads : Done(t) => threads[t].result = Alone(threads[t].args))
  /\ [][UNCHANGED <<resolution, bathymetry, land_polygons>>]_vars

\* two calls with different arguments that overlapped, both ended with a
\* graph-found route
C18_Witness ==
  /\ DoneGraphFound("t1") /\ DoneGraphFound("t2")
  /\ threads["t1"].met /\ threads["t2"].met
  /\ threads["t1"].args.start_coords # threads["t2"].args.start_coords

\* the depth_penalty of the edges along the path of the served call
PenaltiesAlongPath ==
  [k \in 1..(Len(locals.path_indices) - 1) |->
     EdgeData(locals.G, locals.path_indices[k],
              locals.path_indices[k + 1]).depth_penalty]

\* C12: avg_depth_penalty of a graph-found route is the arithmetic mean (to
\* two decimals) of the depth_penalty of the edges along the path, and is 1.0
\* for every path with fewer than 2 edges.
C12_AvgPenaltyIsMeanOrOne ==
  GraphFound =>
    IF Len(PenaltiesAlongPath) < 2
    THEN result.value.avg_depth_penalty = 100
    ELSE 2 * Abs(Len(PenaltiesAlongPath) * result.value.avg_depth_penalty
                   - Sum(PenaltiesAlongPath))
           <= Len(PenaltiesAlongPath)

\* the great-circle lengths of the legs between consecutive path nodes
LegsAlongPath ==
  [k \in 1..(Len(locals.path_indices) - 1) |->
     haversine(locals.nodes[locals.path_indices[k]],
               locals.nodes[locals.path_indices[k + 1]])]

\* C13: total_distance_nm of a graph-found route is the sum (to two decimals)
\* of the distance attribute of the edges between consecutive path nodes,
\* which is their great-circle distance whatever the depth penalties are.
C13_TotalIsSumOfDistances ==
  GraphFound =>
    /\ \A k \in 1..(Len(locals.path_indices) - 1) :
         EdgeData(locals.G, locals.path_indices[k],
                  locals.path_indices[k + 1]).distance = LegsAlongPath[k]
    /\ result.value.total_distance_nm = Round2(Sum(LegsAlongPath))

\* a graph-found route of two or more edges with a penalized edge on it
C13_Witness ==
  /\ GraphFound /\ Len(locals.path_indices) >= 3
  /\ \E k \in 1..(Len(locals.path_indices) - 1) : PenaltiesAlongPath[k] > 100

\* the simple router returned a route found by the search
SimpleFound ==
  simple.pc = "done" /\ simple.run.raised = None
    /\ simple.run.value.warning = NoWarning

\* C14: the path the simple router returns has the least total edge weight
\* among the paths from the start waypoint to the end waypoint in the graph
\* of create_route_graph, for every waypoint list and hazard list.
C14_SimplePathIsLightest ==
  SimpleFound =>
    PathWeight(simple.run.G, simple.run.route_indices)
      <= LeastWeightFrom(simple.run.G, 1)[Len(simple.run.all_waypoints)]

\* the land dataset cannot be asked: it failed to load, is empty, or its
\* containment test throws
LandUnavailable ==
  ~land_polygons.loaded \/ land_polygons.geometry = <<>> \/ land_polygons.raises

\* C15: when the land dataset failed to load or is empty, or the containment
\* test throws, is_on_land is false of every coordinate, generate_water_grid
\* keeps every lattice point and routing goes on to build the graph.
C15_LandFailsOpen ==
  (Routed /\ LandUnavailable) =>
    /\ \A k \in 1..Len(Lattice(args.start_coords, args.end_coords)) :
         ~is_on_land(Lattice(args.start_coords, args.end_coords)[k][2],
                     Lattice(args.start_coords, args.end_coords)[k][1])
    /\ locals.nodes = Lattice(args.start_coords, args.end_coords)
    /\ "graph" \in stages
    /\ result.raised = None

\* a route found over a land frame whose containment test throws
C15_Witness ==
  GraphFound /\ land_polygons.raises /\ Len(locals.path_indices) >= 2

\* the raster has a pixel for the coordinate
Covers(ds, lon, lat) ==
  /\ 0 <= ds.top - lat /\ ds.top - lat < ds.height
  /\ 0 <= lon - ds.left /\ lon - ds.left < ds.width

\* get_depth answers with the fallback depth at a node
FallbackDepth(node) == get_depth(node[2], node[1]) = -DEEP_WATER

\* C16: get_depth returns -1000 when no depth dataset is loaded or the
\* coordinate is outside the dataset's coverage, and an edge whose two
\* endpoints both get this fallback depth has penalty factor exactly 1.0.
C16_DepthFallsBackOutsideCoverage ==
  (Routed /\ "graph" \in stages) =>
    /\ \A k \in 1..Len(locals.nodes) :
         (~bathymetry.open
            \/ ~Covers(bathymetry, locals.nodes[k][2], locals.nodes[k][1]))
           => FallbackDepth(locals.nodes[k])
    /\ \A p \in DOMAIN locals.G.edge :
         (FallbackDepth(locals.nodes[p[1]]) /\ FallbackDepth(locals.nodes[p[2]]))
           => locals.G.edge[p].depth_penalty = 100

\* x is y rounded to the nearest integer, where y = num / den
Nearest(x, num, den) == 2 * (den * x - num) <= den /\ 2 * (num - den * x) <= den

\* C17: estimate_fuel_and_emissions returns fuel_cost_usd = distance x 0.3 x
\* penalty x 600 and emissions_tons = distance x 0.3 x penalty x 3.1, each
\* rounded to two decimals; both are 0 at distance 0, neither decreases when
\* the distance or the penalty grows, and emissions_tons / fuel_cost_usd is
\* 3.1 / 600 up to the two roundings.
C17_EstimateIsLinearInDistanceAndPenalty ==
  estimate.last.made =>
    /\ Nearest(estimate.last.fuel_cost_usd, 9 * estimate.last.distance_nm * estimate.last.depth_penalty, 50)
    /\ Nearest(estimate.last.emissions_tons, 93 * estimate.last.distance_nm * estimate.last.depth_penalty, 100000)
    /\ estimate.last.distance_nm = 0 => (estimate.last.fuel_cost_usd = 0 /\ estimate.last.emissions_tons = 0)
    /\ (estimate.before.made /\ estimate.before.distance_nm <= estimate.last.distance_nm /\ estimate.before.depth_penalty <= estimate.last.depth_penalty)
         => /\ estimate.before.fuel_cost_usd <= estimate.last.fuel_cost_usd
            /\ estimate.before.emissions_tons <= estimate.last.emissions_tons
    /\ Abs(6000 * estimate.last.emissions_tons - 31 * estimate.last.fuel_cost_usd) <= 3015

\* two calls were made, the second with the longer distance and the higher
\* penalty, and it came out dearer
C17_Witness ==
  /\ estimate.before.made /\ estimate.last.made
  /\ 0 < estimate.before.distance_nm /\ estimate.before.distance_nm < estimate.last.distance_nm
  /\ estimate.before.depth_penalty < estimate.last.depth_penalty
  /\ estimate.before.fuel_cost_usd < estimate.last.fuel_cost_usd
  /\ estimate.before.emissions_tons < estimate.last.emissions_tons

\* idx is the first node of the list at the least great-circle distance from coord
FirstNearest(coord, nds, idx) ==
  /\ idx \in 1..Len(nds)
  /\ \A j \in 1..Len(nds) : haversine(coord, nds[idx]) <= haversine(coord, nds[j])
  /\ \A j \in 1..(idx - 1) : haversine(coord, nds[j]) > haversine(coord, nds[idx])

\* some later node is as near to coord as the node at idx
TiedNearest(coord, nds, idx) ==
  \E j \in (idx + 1)..Len(nds) : haversine(coord, nds[j]) = haversine(coord, nds[idx])

\* C19: find_nearest_node returns the index of a node whose great-circle
\* distance to the coordinate is least over the whole node list, and of
\* several nodes at that least distance the one that comes first in the list.
C19_NearestNodeIsFirstOfTheNearest ==
  (Routed /\ "nearest" \in stages) =>
    /\ FirstNearest(args.start_coords, locals.nodes, locals.start_idx)
    /\ FirstNearest(args.end_coords, locals.nodes, locals.end_idx)

\* the start lies midway between two nodes and the earlier one was taken
C19_Witness ==
  /\ Routed /\ "nearest" \in stages
  /\ TiedNearest(args.start_coords, locals.nodes, locals.start_idx)
  /\ haversine(args.start_coords, locals.nodes[locals.start_idx]) > 0

\* the square of the straight-line distance in degrees between two nodes
SquaredDegrees(node_a, node_b) == (node_b[1] - node_a[1]) * (node_b[1] - node_a[1]) + (node_b[2] - node_a[2]) * (node_b[2] - node_a[2])

\* the pairs i < j of node indices at most the connection distance apart
PairsInRange(nds) == {q \in (1..Len(nds)) \X (1..Len(nds)) : q[1] < q[2] /\ SquaredDegrees(nds[q[1]], nds[q[2]]) <= MAX_CONNECT_DIST * MAX_CONNECT_DIST}

\* C20: build_graph joins two node indices i < j if and only if the nodes
\* are at most 4.0 degrees apart in a straight line: no edge joins nodes
\* farther apart, no pair in range is left unjoined, no node is joined to
\* itself, and an unordered pair has one edge with one weight.
C20_EdgesAreThePairsInRange ==
  (Routed /\ "graph" \in stages) =>
    /\ DOMAIN locals.G.edge = PairsInRange(locals.nodes)
    /\ \A u \in 1..Len(locals.G.adj) :
         /\ \A k \in 1..Len(locals.G.adj[u]) : locals.G.adj[u][k] # u
         /\ \A v \in 1..Len(locals.G.adj) :
              (\E k \in 1..Len(locals.G.adj[u]) : locals.G.adj[u][k] = v)
                <=> <<Min2(u, v), Max2(u, v)>> \in PairsInRange(locals.nodes)
         /\ \A k, l \in 1..Len(locals.G.adj[u]) :
              locals.G.adj[u][k] = locals.G.adj[u][l] => k = l

\* a graph with two nodes exactly the connection distance apart, joined, and
\* two nodes farther apart, not joined
C20_Witness ==
  /\ Routed /\ "graph" \in stages
  /\ \E p \in DOMAIN locals.G.edge : SquaredDegrees(locals.nodes[p[1]], locals.nodes[p[2]]) = MAX_CONNECT_DIST * MAX_CONNECT_DIST
  /\ \E i, j \in 1..Len(locals.nodes) : i < j /\ <<i, j>> \notin DOMAIN locals.G.edge

\* twice the average of the depths at the two ends of a weighed edge
DepthSum(w) == get_depth(w.node_a[2], w.node_a[1]) + get_depth(w.node_b[2], w.node_b[1])

\* the factor by which the weight of a weighed edge exceeds its length
FactorOf(w) == w.weight \div haversine(w.node_a, w.node_b)

Penalised(w) == w.made /\ w.use_bathymetry /\ bathymetry.open

\* C21: with depth weighting on and a dataset loaded, compute_edge_weight
\* returns the base distance times a factor taken from the average of the
\* two end depths: 10 when shallower than 50 m, 5 when shallower than 100 m,
\* 2 when shallower than 200 m, 1 otherwise.  An average of exactly 50, 100
\* or 200 m gets the lower factor, and of two edges the one with the deeper
\* average never has the higher factor.
C21_PenaltyByDepthBand ==
  Penalised(weighing.last) =>
    /\ DepthSum(weighing.last) > -100 => weighing.last.weight = 10 * haversine(weighing.last.node_a, weighing.last.node_b)
    /\ (DepthSum(weighing.last) <= -100 /\ DepthSum(weighing.last) > -200) => weighing.last.weight = 5 * haversine(weighing.last.node_a, weighing.last.node_b)
    /\ (DepthSum(weighing.last) <= -200 /\ DepthSum(weighing.last) > -400) => weighing.last.weight = 2 * haversine(weighing.last.node_a, weighing.last.node_b)
    /\ DepthSum(weighing.last) <= -400 => weighing.last.weight = haversine(weighing.last.node_a, weighing.last.node_b)
    /\ (Penalised(weighing.before) /\ DepthSum(weighing.last) <= DepthSum(weighing.before)) => FactorOf(weighing.last) <= FactorOf(weighing.before)

\* an edge whose average depth is exactly 50 m was weighed after a shallower
\* one and got the lower factor
C21_Witness ==
  /\ Penalised(weighing.last) /\ Penalised(weighing.before)
  /\ DepthSum(weighing.last) = -100 /\ DepthSum(weighing.before) > -100
  /\ FactorOf(weighing.last) = 5 /\ FactorOf(weighing.before) = 10

\* the lattice points of a request that is_on_land takes for water
WaterPoints(start, end) == {Lattice(start, end)[k] : k \in {i \in 1..Len(Lattice(start, end)) : ~is_on_land(Lattice(start, end)[i][2], Lattice(start, end)[i][1])}}

\* no water point of the request is nearer to coord than node
NearestWater(coord, node, start, end) == \A p \in WaterPoints(start, end) : haversine(coord, node) <= haversine(coord, p)

\* C22: in every route found in the graph each coordinate is a node that
\* generate_water_grid returned for the request, so a lattice point not on
\* land; the first is the water node nearest the origin and the last the
\* water node nearest the destination.
C22_RouteRunsOverWaterNodes ==
  GraphFound =>
    /\ \A k \in 1..Len(result.value.route) : result.value.route[k] \in WaterPoints(args.start_coords, args.end_coords)
    /\ Len(result.value.route) >= 1
    /\ NearestWater(args.start_coords, result.value.route[1], args.start_coords, args.end_coords)
    /\ NearestWater(args.end_coords, result.value.route[Len(result.value.route)], args.start_coords, args.end_coords)

\* a route of several nodes on a router whose land data puts the origin's own
\* lattice neighbourhood partly on land
C22_Witness ==
  /\ GraphFound /\ Len(result.value.route) >= 2
  /\ \E k \in 1..Len(Lattice(args.start_coords, args.end_coords)) : is_on_land(Lattice(args.start_coords, args.end_coords)[k][2], Lattice(args.start_coords, args.end_coords)[k][1])
  /\ is_on_land(args.start_coords[2], args.start_coords[1])

\* C23: the node sequence of every route found in the graph holds no node
\* twice, and every two consecutive nodes of it are joined by an edge of the
\* graph built for the request, so they are at most 4.0 degrees apart.
C23_RouteIsSimplePathOfGraph ==
  GraphFound =>
    /\ \A k, l \in 1..Len(locals.path_indices) : locals.path_indices[k] = locals.path_indices[l] => k = l
    /\ \A k, l \in 1..Len(result.value.route) : result.value.route[k] = result.value.route[l] => k = l
    /\ \A k \in 1..(Len(locals.path_indices) - 1) :
         /\ <<Min2(locals.path_indices[k], locals.path_indices[k + 1]), Max2(locals.path_indices[k], locals.path_indices[k + 1])>> \in DOMAIN locals.G.edge
         /\ SquaredDegrees(result.value.route[k], result.value.route[k + 1]) <= MAX_CONNECT_DIST * MAX_CONNECT_DIST

\* a route of at least three nodes came out of the search
C23_Witness ==
  GraphFound /\ Len(locals.path_indices) >= 3 /\ Len(result.value.route) = Len(locals.path_indices)

\* the result is the direct route of a fallback: no path came out of a search
Fallback == Returned /\ locals.path_indices = <<>>

\* C24: in every result of optimize_route waypoint_count is the length of
\* route; a warning key is present exactly when the result is the direct-route
\* fallback, and then route is [origin, destination], avg_depth_penalty is 1.0
\* and bathymetry_enabled is false; the HTTP response carries a warning
\* exactly when the result does.
C24_ResultFieldsAgree ==
  Returned =>
    /\ result.value.waypoint_count = Len(result.value.route)
    /\ (result.value.warning # NoWarning) <=> Fallback
    /\ Fallback => /\ result.value.route = <<args.start_coords, args.end_coords>>
                   /\ result.value.avg_depth_penalty = 100
                   /\ result.value.bathymetry_enabled = FALSE
    /\ HttpServed => /\ response.success
                     /\ (response.warning # NoWarning) <=> (result.value.warning # NoWarning)
                     /\ response.warning = result.value.warning

\* an HTTP request that asked for depth-aware routing was answered with the
\* direct route and its warning
C24_Witness ==
  /\ HttpServed /\ Fallback /\ args.use_bathymetry
  /\ response.warning # NoWarning

\* the graph of the simple router's call holds no walk from the start
\* waypoint to the end waypoint
SimpleNoPath == simple.pc = "done" /\ LeastWeightFrom(simple.run.G, 1)[Len(simple.run.all_waypoints)] < 0

\* C25: the simple router's optimize_route never raises; whenever the graph
\* of create_route_graph holds no path from the start waypoint to the end
\* waypoint, also when one of the two has no waypoint within 500 nm and so is
\* not in the graph, it returns the direct route [start, end] with
\* waypoint_count 2 and a warning.
C25_SimpleRouterNeverRaises ==
  simple.pc = "done" =>
    /\ simple.run.raised = None
    /\ SimpleNoPath => /\ simple.run.value.route = <<simple.start_coords, simple.end_coords>>
                       /\ simple.run.value.waypoint_count = 2
                       /\ simple.run.value.warning \notin {NoWarning, ""}

\* p is a whole number of resolution steps from the low corner of the box
OnLattice(p, start, end) ==
  /\ (p[1] - (Min2(start[1], end[1]) - PADDING)) % resolution = 0
  /\ (p[2] - (Min2(start[2], end[2]) - PADDING)) % resolution = 0

\* the water lattice points of the padded box
WaterOfBox(start, end) == {p \in ((Min2(start[1], end[1]) - PADDING)..(Max2(start[1], end[1]) + PADDING)) \X ((Min2(start[2], end[2]) - PADDING)..(Max2(start[2], end[2]) + PADDING)) : OnLattice(p, start, end) /\ ~is_on_land(p[2], p[1])}

\* C26: generate_water_grid returns exactly the lattice points of the
\* bounding box of origin and destination padded by 5 degrees on each side
\* that is_on_land takes for water: no land point is kept, no water lattice
\* point is dropped, each point appears once, as (lat, lon), in
\* longitude-major order.
C26_GridIsWaterLatticeOfBox ==
  Routed =>
    /\ {locals.nodes[k] : k \in 1..Len(locals.nodes)} = WaterOfBox(args.start_coords, args.end_coords)
    /\ \A k \in 1..Len(locals.nodes) : ~is_on_land(locals.nodes[k][2], locals.nodes[k][1])
    /\ \A k, l \in 1..Len(locals.nodes) :
         k < l => \/ locals.nodes[k][2] < locals.nodes[l][2]
                  \/ (locals.nodes[k][2] = locals.nodes[l][2] /\ locals.nodes[k][1] < locals.nodes[l][1])

\* C27: in the graph build_graph_bathy.py builds every edge joins two
\* 8-neighbour water lattice points that both have a known depth, and its
\* weight is the grid distance times 1 + 0.8 x |avg_depth - 3000| / 3000,
\* at most 3.0, so that grid distance <= weight <= 3 x grid distance.
C27_BathyEdgesAreNeighboursWithBoundedPenalty ==
  \A e \in DOMAIN script.G :
    /\ Cardinality(e) = 2
    /\ \A p, q \in e :
         p # q =>
           /\ p \notin script.land_union /\ q \notin script.land_union
           /\ p[1] \in ScriptLons /\ p[2] \in ScriptLats
           /\ Abs(p[1] - q[1]) <= 1 /\ Abs(p[2] - q[2]) <= 1
           /\ get_depth_fast(script.bathy, p[1], p[2]) # NaN
           /\ get_depth_fast(script.bathy, q[1], q[2]) # NaN
           /\ 2 * Abs(get_depth_fast(script.bathy, p[1], p[2]) + get_depth_fast(script.bathy, q[1], q[2]) - 6000) <= 30000
                => script.G[e] = hypot(p[1] - q[1], p[2] - q[2]) * (15000 + 2 * Abs(get_depth_fast(script.bathy, p[1], p[2]) + get_depth_fast(script.bathy, q[1], q[2]) - 6000))
           /\ 2 * Abs(get_depth_fast(script.bathy, p[1], p[2]) + get_depth_fast(script.bathy, q[1], q[2]) - 6000) > 30000
                => script.G[e] = hypot(p[1] - q[1], p[2] - q[2]) * 45000
           /\ 15000 * hypot(p[1] - q[1], p[2] - q[2]) <= script.G[e]
           /\ script.G[e] <= 45000 * hypot(p[1] - q[1], p[2] - q[2])

\* the saved graph has an edge at the target depth, weighing its length, an
\* edge in a trench, weighing three times its length, and a water node
\* without a known depth
C27_Witness ==
  /\ script.pc = "saved"
  /\ \E e \in DOMAIN script.G : \E p, q \in e : p # q /\ script.G[e] = 15000 * hypot(p[1] - q[1], p[2] - q[2])
  /\ \E e \in DOMAIN script.G : \E p, q \in e : p # q /\ script.G[e] = 45000 * hypot(p[1] - q[1], p[2] - q[2])
  /\ \E n \in DOMAIN script.depth_cache : script.depth_cache[n] = NaN

=============================================================================
